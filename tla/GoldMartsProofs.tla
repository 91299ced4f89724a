---- MODULE GoldMartsProofs ----
(***************************************************************************)
(* The marts for any rows, batches and parameters of the builders.         *)
(* Refreshing the affected dates of the daily marts is rebuilding them:    *)
(* every daily mart is local, restricted to some dates it is the mart of   *)
(* the rows of these dates.  The derived sessions are the runs of rows     *)
(* without a break; the rows of a date add up to the same counts in every  *)
(* mart, by sums over a partition of the rows; and a user's path is the    *)
(* merger of the paths of the user's sessions.  Marts of months stay as    *)
(* they are once their months are over, for as long as what arrives later  *)
(* is dated later.  Scores are fair, and both engines make the same marts  *)
(* of the same rows.                                                       *)
(***************************************************************************)
EXTENDS GoldMarts, FiniteInduction, TLAPS

-----------------------------------------------------------------------------
(* Groups of rows of one date. *)

\* A key that tells dates apart.
Dated(S, key) == \A e, f \in S : key[e] = key[f] => Date(e) = Date(f)
OnlyOf(mart, D) == {r \in mart : r.date \in D}

LEMMA GroupHasDate ==
  ASSUME NEW S, NEW key, Dated(S, key), NEW G \in Groups(S, key)
  PROVE  /\ G \subseteq S
         /\ (CHOOSE e \in G : TRUE) \in G
         /\ \A e \in G : Date(e) = DateOf(G)
         /\ DateOf(G) \in Dates(S)
<1>1. PICK x \in S : G = {e \in S : key[e] = key[x]}
  BY DEF Groups
<1>2. x \in G /\ G \subseteq S
  BY <1>1
<1>3. (CHOOSE e \in G : TRUE) \in G
  BY <1>2
<1>4. \A e \in G : Date(e) = Date(x)
  BY <1>1 DEF Dated
<1>5. Dates(G) = {Date(x)}
  BY <1>2, <1>4 DEF Dates
<1>6. DateOf(G) = Date(x)
  BY <1>5 DEF DateOf
<1> QED
  BY <1>2, <1>3, <1>4, <1>6 DEF Dates

LEMMA GroupsOnDates ==
  ASSUME NEW S, NEW D, NEW key, NEW sub, Dated(S, key), \A e \in OnDates(S, D) : sub[e] = key[e]
  PROVE  Groups(OnDates(S, D), sub) = {G \in Groups(S, key) : DateOf(G) \in D}
<1> DEFINE T == OnDates(S, D)
<1>1. T \subseteq S /\ \A e \in S : e \in T <=> Date(e) \in D
  BY DEF OnDates
<1>2. ASSUME NEW x \in T PROVE {e \in T : sub[e] = sub[x]} = {e \in S : key[e] = key[x]}
  BY <1>1 DEF Dated
<1>3. ASSUME NEW x \in T PROVE {e \in S : key[e] = key[x]} \in Groups(S, key)
  BY <1>1 DEF Groups
<1>4. ASSUME NEW G \in Groups(T, sub) PROVE G \in Groups(S, key) /\ DateOf(G) \in D
  <2>1. PICK x \in T : G = {e \in T : sub[e] = sub[x]}
    BY DEF Groups
  <2>2. G \in Groups(S, key)
    BY <2>1, <1>2, <1>3
  <2>3. x \in G /\ Date(x) \in D
    BY <2>1, <1>1
  <2> QED
    BY <2>2, <2>3, GroupHasDate
<1>5. ASSUME NEW G \in Groups(S, key), DateOf(G) \in D PROVE G \in Groups(T, sub)
  <2>1. PICK x \in S : G = {e \in S : key[e] = key[x]}
    BY DEF Groups
  <2>2. x \in T
    BY <1>1, <1>5, <2>1, GroupHasDate
  <2>3. G = {e \in T : sub[e] = sub[x]}
    BY <2>1, <2>2, <1>2
  <2> QED
    BY <2>2, <2>3 DEF Groups
<1> QED
  BY <1>4, <1>5

-----------------------------------------------------------------------------
(* The derived session of a row depends on the rows of its date only. *)

LEMMA SessionsOnDates ==
  ASSUME NEW S, NEW D, NEW e \in OnDates(S, D)
  PROVE  Sessionized(OnDates(S, D))[e] = Sessionized(S)[e]
<1> DEFINE T == OnDates(S, D)
<1>1. T \subseteq S /\ \A f \in S : f \in T <=> Date(f) \in D
  BY DEF OnDates
<1>2. \A f \in T : Window(T, f) = Window(S, f)
  BY <1>1 DEF Window
<1>3. \A f \in T : Previous(T, f) = Previous(S, f)
  BY <1>2 DEF Previous
<1>4. \A f \in T : DerivedBreak(T, f) <=> DerivedBreak(S, f)
  BY <1>3 DEF DerivedBreak
<1>5. Window(S, e) \subseteq T
  BY <1>1 DEF Window
<1>6. {f \in Window(T, e) : (f = e \/ Before(f, e)) /\ DerivedBreak(T, f)}
      = {f \in Window(S, e) : (f = e \/ Before(f, e)) /\ DerivedBreak(S, f)}
  BY <1>2, <1>4, <1>5
<1>7. DerivedIndex(T, e) = DerivedIndex(S, e)
  BY <1>6 DEF DerivedIndex
<1>8. SessionId(T, e) = SessionId(S, e)
  BY <1>7 DEF SessionId
<1> QED
  BY <1>1, <1>8 DEF Sessionized

-----------------------------------------------------------------------------
(* The daily marts. *)

LEMMA DailyRevenueLocal ==
  ASSUME NEW S, NEW D
  PROVE  /\ DailyRevenue(OnDates(S, D)) = OnlyOf(DailyRevenue(S), D)
         /\ \A r \in DailyRevenue(S) : r.date \in Dates(S)
<1> DEFINE P(R) == OfType(R, "purchase")
           T == OnDates(S, D)
           row(G) == [date |-> DateOf(G), purchases |-> Cardinality(G), revenue |-> Revenue(G), buyers |-> Cardinality(Users(G))]
<1>1. P(T) = OnDates(P(S), D) /\ P(S) \subseteq S
  BY DEF OfType, OnDates
<1>2. Dated(P(S), ByDate(S)) /\ \A e \in P(T) : ByDate(T)[e] = ByDate(S)[e]
  BY DEF OfType, OnDates, Dated, ByDate
<1>3. Groups(P(T), ByDate(T)) = {G \in Groups(P(S), ByDate(S)) : DateOf(G) \in D}
  BY <1>1, <1>2, GroupsOnDates
<1>4. \A G : row(G).date = DateOf(G)
  OBVIOUS
<1>5. DailyRevenue(T) = {row(G) : G \in Groups(P(T), ByDate(T))} /\ DailyRevenue(S) = {row(G) : G \in Groups(P(S), ByDate(S))}
  BY DEF DailyRevenue
<1>6. \A G \in Groups(P(S), ByDate(S)) : DateOf(G) \in Dates(S)
  BY <1>1, <1>2, GroupHasDate DEF Dates
<1> HIDE DEF P, T, row
<1>7. {row(G) : G \in {H \in Groups(P(S), ByDate(S)) : DateOf(H) \in D}} = OnlyOf({row(G) : G \in Groups(P(S), ByDate(S))}, D)
  BY <1>4 DEF OnlyOf
<1> QED
  BY <1>3, <1>4, <1>5, <1>6, <1>7 DEF T

LEMMA ConversionFunnelDailyLocal ==
  ASSUME NEW S, NEW D
  PROVE  /\ ConversionFunnelDaily(OnDates(S, D)) = OnlyOf(ConversionFunnelDaily(S), D)
         /\ \A r \in ConversionFunnelDaily(S) : r.date \in Dates(S)
<1> DEFINE T == OnDates(S, D)
           row(G) == [date |-> DateOf(G), stages |-> Stages(G)]
<1>1. Dated(S, ByDate(S)) /\ \A e \in T : ByDate(T)[e] = ByDate(S)[e]
  BY DEF OnDates, Dated, ByDate
<1>2. Groups(T, ByDate(T)) = {G \in Groups(S, ByDate(S)) : DateOf(G) \in D}
  BY <1>1, GroupsOnDates
<1>3. \A G : row(G).date = DateOf(G)
  OBVIOUS
<1>4. /\ ConversionFunnelDaily(T) = {row(G) : G \in Groups(T, ByDate(T))}
      /\ ConversionFunnelDaily(S) = {row(G) : G \in Groups(S, ByDate(S))}
  BY DEF ConversionFunnelDaily
<1>5. \A G \in Groups(S, ByDate(S)) : DateOf(G) \in Dates(S)
  BY <1>1, GroupHasDate
<1> HIDE DEF T, row
<1>6. {row(G) : G \in {H \in Groups(S, ByDate(S)) : DateOf(H) \in D}} = OnlyOf({row(G) : G \in Groups(S, ByDate(S))}, D)
  BY <1>3 DEF OnlyOf
<1> QED
  BY <1>2, <1>3, <1>4, <1>5, <1>6 DEF T

LEMMA CategoryPerformanceLocal ==
  ASSUME NEW S, NEW D
  PROVE  /\ CategoryPerformance(OnDates(S, D)) = OnlyOf(CategoryPerformance(S), D)
         /\ \A r \in CategoryPerformance(S) : r.date \in Dates(S)
<1> DEFINE T == OnDates(S, D)
           row(G, key) == [date |-> DateOf(G), category |-> Shared(key, G)[2],
                           buyers |-> Cardinality(Users(OfType(G, "purchase"))), counts |-> Counts(G)]
<1>1. Dated(S, ByCategory(S)) /\ \A e \in T : ByCategory(T)[e] = ByCategory(S)[e]
  BY DEF OnDates, Dated, ByCategory
<1>2. Groups(T, ByCategory(T)) = {G \in Groups(S, ByCategory(S)) : DateOf(G) \in D}
  BY <1>1, GroupsOnDates
<1>3. \A G, key : row(G, key).date = DateOf(G)
  OBVIOUS
<1>4. ASSUME NEW G \in Groups(T, ByCategory(T)) PROVE row(G, ByCategory(T)) = row(G, ByCategory(S))
  <2>1. (CHOOSE e \in G : TRUE) \in G /\ G \subseteq T
    BY <1>1, <1>2, GroupHasDate DEF Groups
  <2> QED
    BY <1>1, <2>1 DEF Shared
<1>5. /\ CategoryPerformance(T) = {row(G, ByCategory(T)) : G \in Groups(T, ByCategory(T))}
      /\ CategoryPerformance(S) = {row(G, ByCategory(S)) : G \in Groups(S, ByCategory(S))}
  BY DEF CategoryPerformance
<1>6. \A G \in Groups(S, ByCategory(S)) : DateOf(G) \in Dates(S)
  BY <1>1, GroupHasDate
<1> HIDE DEF T, row
<1>7. {row(G, ByCategory(T)) : G \in Groups(T, ByCategory(T))} = {row(G, ByCategory(S)) : G \in Groups(T, ByCategory(T))}
  BY <1>4
<1>8. {row(G, ByCategory(S)) : G \in {H \in Groups(S, ByCategory(S)) : DateOf(H) \in D}}
      = OnlyOf({row(G, ByCategory(S)) : G \in Groups(S, ByCategory(S))}, D)
  BY <1>3 DEF OnlyOf
<1>9. CategoryPerformance(T) = OnlyOf(CategoryPerformance(S), D)
  BY <1>2, <1>5, <1>7, <1>8
<1>10. \A r \in CategoryPerformance(S) : r.date \in Dates(S)
  BY <1>3, <1>5, <1>6
<1> QED
  BY <1>9, <1>10 DEF T

LEMMA ProductAggLocal ==
  ASSUME NEW S, NEW D
  PROVE  /\ ProductAgg(OnDates(S, D)) = OnlyOf(ProductAgg(S), D)
         /\ \A r \in ProductAgg(S) : r.date \in Dates(S)
<1> DEFINE T == OnDates(S, D)
           row(G, key) == [date |-> DateOf(G), product |-> Shared(key, G)[2], users |-> Cardinality(Users(G)),
                           counts |-> Counts(G)]
<1>1. Dated(S, ByProduct(S)) /\ \A e \in T : ByProduct(T)[e] = ByProduct(S)[e]
  BY DEF OnDates, Dated, ByProduct
<1>2. Groups(T, ByProduct(T)) = {G \in Groups(S, ByProduct(S)) : DateOf(G) \in D}
  BY <1>1, GroupsOnDates
<1>3. \A G, key : row(G, key).date = DateOf(G)
  OBVIOUS
<1>4. ASSUME NEW G \in Groups(T, ByProduct(T)) PROVE row(G, ByProduct(T)) = row(G, ByProduct(S))
  <2>1. (CHOOSE e \in G : TRUE) \in G /\ G \subseteq T
    BY <1>1, <1>2, GroupHasDate DEF Groups
  <2> QED
    BY <1>1, <2>1 DEF Shared
<1>5. /\ ProductAgg(T) = {row(G, ByProduct(T)) : G \in Groups(T, ByProduct(T))}
      /\ ProductAgg(S) = {row(G, ByProduct(S)) : G \in Groups(S, ByProduct(S))}
  BY DEF ProductAgg
<1>6. \A G \in Groups(S, ByProduct(S)) : DateOf(G) \in Dates(S)
  BY <1>1, GroupHasDate
<1> HIDE DEF T, row
<1>7. {row(G, ByProduct(T)) : G \in Groups(T, ByProduct(T))} = {row(G, ByProduct(S)) : G \in Groups(T, ByProduct(T))}
  BY <1>4
<1>8. {row(G, ByProduct(S)) : G \in {H \in Groups(S, ByProduct(S)) : DateOf(H) \in D}}
      = OnlyOf({row(G, ByProduct(S)) : G \in Groups(S, ByProduct(S))}, D)
  BY <1>3 DEF OnlyOf
<1>9. ProductAgg(T) = OnlyOf(ProductAgg(S), D)
  BY <1>2, <1>5, <1>7, <1>8
<1>10. \A r \in ProductAgg(S) : r.date \in Dates(S)
  BY <1>3, <1>5, <1>6
<1> QED
  BY <1>9, <1>10 DEF T

\* A product is ranked among those of its date.
LEMMA TopProductsLocal ==
  ASSUME NEW S, NEW D
  PROVE  /\ TopProductsDaily(OnDates(S, D)) = OnlyOf(TopProductsDaily(S), D)
         /\ \A r \in TopProductsDaily(S) : r.date \in Dates(S)
<1> DEFINE T == OnDates(S, D)
           A == ProductAgg(S)
           B == ProductAgg(T)
           row(C, p) == [date |-> p.date, rank |-> ProductRank(C, p), row |-> p]
           top(C) == {q \in C : ProductRank(C, q) <= TopProducts}
<1>1. B = OnlyOf(A, D) /\ \A p \in A : p.date \in Dates(S)
  BY ProductAggLocal
<1>2. TopProductsDaily(T) = {row(B, p) : p \in top(B)} /\ TopProductsDaily(S) = {row(A, p) : p \in top(A)}
  BY DEF TopProductsDaily
<1>3. \A p : row(A, p).date = p.date
  OBVIOUS
<1> HIDE DEF A, B
<1>4. ASSUME NEW p \in B PROVE ProductRank(B, p) = ProductRank(A, p)
  <2>1. {q \in B : q.date = p.date /\ Outranks(q, p)} = {q \in A : q.date = p.date /\ Outranks(q, p)}
    BY <1>1 DEF OnlyOf
  <2> QED
    BY <2>1 DEF ProductRank
<1>5. \A p \in B : row(B, p) = row(A, p)
  BY <1>4
<1>6. top(B) = {p \in top(A) : p.date \in D}
  BY <1>1, <1>4 DEF OnlyOf
<1> HIDE DEF T, row, top
<1>7. {row(B, p) : p \in top(B)} = {row(A, p) : p \in top(B)}
  BY <1>5 DEF top
<1>8. {row(A, p) : p \in {q \in top(A) : q.date \in D}} = OnlyOf({row(A, p) : p \in top(A)}, D)
  BY <1>3 DEF OnlyOf
<1> QED
  BY <1>1, <1>2, <1>3, <1>6, <1>7, <1>8 DEF T, top

LEMMA SessionFunnelLocal ==
  ASSUME NEW S, NEW D
  PROVE  /\ SessionFunnel(OnDates(S, D), Sessionized(OnDates(S, D))) = OnlyOf(SessionFunnel(S, Sessionized(S)), D)
         /\ \A r \in SessionFunnel(S, Sessionized(S)) : r.date \in Dates(S)
<1> DEFINE T == OnDates(S, D)
           K == BySession(S, Sessionized(S))
           L == BySession(T, Sessionized(T))
           row(G, key) == [date |-> DateOf(G), user |-> Shared(key, G)[2], session |-> Shared(key, G)[3],
                           start |-> Earliest(G), end |-> Latest(G), events |-> Cardinality(G),
                           products |-> Cardinality({e.product : e \in G} \ {None}), label |-> PathLabel(G),
                           converted |-> OfType(G, "purchase") # {}, counts |-> Counts(G)]
<1>1. Dated(S, K)
  BY DEF Dated, BySession
<1>2. \A e \in T : L[e] = K[e]
  BY SessionsOnDates DEF BySession, OnDates
<1>3. Groups(T, L) = {G \in Groups(S, K) : DateOf(G) \in D}
  BY <1>1, <1>2, GroupsOnDates
<1>4. \A G, key : row(G, key).date = DateOf(G)
  OBVIOUS
<1>5. /\ SessionFunnel(T, Sessionized(T)) = {row(G, L) : G \in Groups(T, L)}
      /\ SessionFunnel(S, Sessionized(S)) = {row(G, K) : G \in Groups(S, K)}
  BY DEF SessionFunnel
<1> HIDE DEF K, L
<1>6. ASSUME NEW G \in Groups(T, L) PROVE row(G, L) = row(G, K)
  <2>1. (CHOOSE e \in G : TRUE) \in G /\ G \subseteq T
    BY <1>1, <1>3, GroupHasDate DEF Groups
  <2>2. Shared(L, G) = Shared(K, G)
    BY <1>2, <2>1 DEF Shared
  <2> QED
    BY <2>2
<1>7. \A G \in Groups(S, K) : DateOf(G) \in Dates(S)
  BY <1>1, GroupHasDate
<1> HIDE DEF T, row
<1>8. {row(G, L) : G \in Groups(T, L)} = {row(G, K) : G \in Groups(T, L)}
  BY <1>6
<1>9. {row(G, K) : G \in {H \in Groups(S, K) : DateOf(H) \in D}} = OnlyOf({row(G, K) : G \in Groups(S, K)}, D)
  BY <1>4 DEF OnlyOf
<1> QED
  BY <1>3, <1>4, <1>5, <1>7, <1>8, <1>9 DEF T

LEMMA UserConversionPathLocal ==
  ASSUME NEW S, NEW D
  PROVE  /\ UserConversionPath(OnDates(S, D), Sessionized(OnDates(S, D))) = OnlyOf(UserConversionPath(S, Sessionized(S)), D)
         /\ \A r \in UserConversionPath(S, Sessionized(S)) : r.date \in Dates(S)
<1> DEFINE T == OnDates(S, D)
           row(G, key, sid) == [date |-> DateOf(G), user |-> Shared(key, G)[2], sessions |-> Cardinality({sid[e] : e \in G}),
                                first |-> Earliest(G), last |-> Latest(G), label |-> PathLabel(G),
                                converted |-> OfType(G, "purchase") # {}, counts |-> Counts(G)]
<1>1. Dated(S, ByUser(S)) /\ \A e \in T : ByUser(T)[e] = ByUser(S)[e]
  BY DEF OnDates, Dated, ByUser
<1>2. Groups(T, ByUser(T)) = {G \in Groups(S, ByUser(S)) : DateOf(G) \in D}
  BY <1>1, GroupsOnDates
<1>3. \A G, key, sid : row(G, key, sid).date = DateOf(G)
  OBVIOUS
<1>4. /\ UserConversionPath(T, Sessionized(T)) = {row(G, ByUser(T), Sessionized(T)) : G \in Groups(T, ByUser(T))}
      /\ UserConversionPath(S, Sessionized(S)) = {row(G, ByUser(S), Sessionized(S)) : G \in Groups(S, ByUser(S))}
  BY DEF UserConversionPath
<1>5. ASSUME NEW G \in Groups(T, ByUser(T))
      PROVE  row(G, ByUser(T), Sessionized(T)) = row(G, ByUser(S), Sessionized(S))
  <2>1. (CHOOSE e \in G : TRUE) \in G /\ G \subseteq T
    BY <1>1, <1>2, GroupHasDate DEF Groups
  <2>2. Shared(ByUser(T), G) = Shared(ByUser(S), G)
    BY <1>1, <2>1 DEF Shared
  <2>3. \A e \in G : Sessionized(T)[e] = Sessionized(S)[e]
    BY <2>1, SessionsOnDates
  <2>4. {Sessionized(T)[e] : e \in G} = {Sessionized(S)[e] : e \in G}
    BY <2>3
  <2> QED
    BY <2>2, <2>4
<1>6. \A G \in Groups(S, ByUser(S)) : DateOf(G) \in Dates(S)
  BY <1>1, GroupHasDate
<1> HIDE DEF T, row
<1>7. {row(G, ByUser(T), Sessionized(T)) : G \in Groups(T, ByUser(T))}
      = {row(G, ByUser(S), Sessionized(S)) : G \in Groups(T, ByUser(T))}
  BY <1>5
<1>8. {row(G, ByUser(S), Sessionized(S)) : G \in {H \in Groups(S, ByUser(S)) : DateOf(H) \in D}}
      = OnlyOf({row(G, ByUser(S), Sessionized(S)) : G \in Groups(S, ByUser(S))}, D)
  BY <1>3 DEF OnlyOf
<1>9. UserConversionPath(T, Sessionized(T)) = OnlyOf(UserConversionPath(S, Sessionized(S)), D)
  BY <1>2, <1>4, <1>7, <1>8
<1>10. \A r \in UserConversionPath(S, Sessionized(S)) : r.date \in Dates(S)
  BY <1>3, <1>4, <1>6
<1> QED
  BY <1>9, <1>10 DEF T

-----------------------------------------------------------------------------
(* The refresh. *)

\* A mart whose rows of the dates A are replaced is the mart of all rows, when these rows are its rows
\* of A and nothing changed on the other dates.
LEMMA Replaced ==
  ASSUME NEW A, NEW D, NEW before, NEW after, NEW fresh,
         fresh = OnlyOf(after, A), OnlyOf(after, D) = OnlyOf(before, D),
         \A r \in after : r.date \in A \cup D, \A r \in before : r.date \in A \cup D, A \cap D = {}
  PROVE  {r \in before : r.date \notin A} \cup fresh = after
BY DEF OnlyOf

LEMMA OnOtherDates ==
  ASSUME NEW S, NEW b, NEW D, Dates(b) \cap D = {}
  PROVE  OnDates(S \cup b, D) = OnDates(S, D)
BY DEF OnDates, Dates

Names == {"daily_revenue", "top_products", "conversion_funnel_daily", "category_performance", "session_funnel",
          "user_conversion_path"}

LEMMA DailyMartsLocal ==
  ASSUME NEW S, NEW D, NEW m \in Names
  PROVE  /\ DailyMarts(OnDates(S, D))[m] = OnlyOf(DailyMarts(S)[m], D)
         /\ \A r \in DailyMarts(S)[m] : r.date \in Dates(S)
<1>1. CASE m = "daily_revenue"
  BY <1>1, DailyRevenueLocal DEF DailyMarts
<1>2. CASE m = "top_products"
  BY <1>2, TopProductsLocal DEF DailyMarts
<1>3. CASE m = "conversion_funnel_daily"
  BY <1>3, ConversionFunnelDailyLocal DEF DailyMarts
<1>4. CASE m = "category_performance"
  BY <1>4, CategoryPerformanceLocal DEF DailyMarts
<1>5. CASE m = "session_funnel"
  BY <1>5, SessionFunnelLocal DEF DailyMarts
<1>6. CASE m = "user_conversion_path"
  BY <1>6, UserConversionPathLocal DEF DailyMarts
<1> QED
  BY <1>1, <1>2, <1>3, <1>4, <1>5, <1>6 DEF Names

LEMMA DailyMartsNames == \A S : DOMAIN DailyMarts(S) = Names /\ DailyMarts(S) = [m \in Names |-> DailyMarts(S)[m]]
BY DEF DailyMarts, Names

LEMMA PublishRebuilds ==
  ASSUME RefreshIsRebuild, NEW b, Publish(b)
  PROVE  RefreshIsRebuild'
<1> DEFINE A == Dates(b)
           S == silver
           T == silver \cup b
           D == Dates(T) \ A
<1>1. daily = DailyMarts(S) /\ DOMAIN daily = Names
  BY DailyMartsNames DEF RefreshIsRebuild
<1>2. silver' = T /\ daily' = [m \in Names |-> {r \in daily[m] : r.date \notin A} \cup DailyMarts(OnDates(T, A))[m]]
  BY <1>1 DEF Publish, RefreshGoldTables
<1>3. Dates(S) \subseteq A \cup D /\ Dates(T) \subseteq A \cup D /\ A \cap D = {}
  BY DEF Dates
<1>4. OnDates(T, D) = OnDates(S, D)
  BY <1>3, OnOtherDates
<1> HIDE DEF A, S, T, D
<1>5. ASSUME NEW m \in Names
      PROVE  {r \in daily[m] : r.date \notin A} \cup DailyMarts(OnDates(T, A))[m] = DailyMarts(T)[m]
  <2> DEFINE before == DailyMarts(S)[m]
             after == DailyMarts(T)[m]
             fresh == DailyMarts(OnDates(T, A))[m]
  <2>1. fresh = OnlyOf(after, A)
    BY DailyMartsLocal
  <2>2. OnlyOf(after, D) = DailyMarts(OnDates(T, D))[m] /\ OnlyOf(before, D) = DailyMarts(OnDates(S, D))[m]
    BY DailyMartsLocal
  <2>3. OnlyOf(after, D) = OnlyOf(before, D)
    BY <1>4, <2>2
  <2>4. (\A r \in after : r.date \in A \cup D) /\ (\A r \in before : r.date \in A \cup D)
    BY <1>3, DailyMartsLocal
  <2>5. daily[m] = before
    BY <1>1
  <2> HIDE DEF before, after, fresh
  <2>6. {r \in before : r.date \notin A} \cup fresh = after
    BY <1>3, <2>1, <2>3, <2>4, Replaced
  <2> QED
    BY <2>5, <2>6 DEF after, fresh
<1>6. daily' = [m \in Names |-> DailyMarts(T)[m]]
  BY <1>2, <1>5
<1>7. daily' = DailyMarts(T)
  BY <1>6, DailyMartsNames
<1> QED
  BY <1>2, <1>7 DEF RefreshIsRebuild

\* However Silver grew, the marts that were refreshed date by date are those a rebuild would give.
THEOREM RefreshIsRebuildAlways == Spec => []RefreshIsRebuild
<1>1. Init => RefreshIsRebuild
  BY DEF Init, RefreshIsRebuild
<1>2. RefreshIsRebuild /\ [Next]_vars => RefreshIsRebuild'
  <2>1. ASSUME RefreshIsRebuild, UNCHANGED vars PROVE RefreshIsRebuild'
    BY <2>1 DEF vars, RefreshIsRebuild
  <2> QED
    BY <2>1, PublishRebuilds DEF Next
<1> QED
  BY <1>1, <1>2, PTL DEF Spec

-----------------------------------------------------------------------------
(* Rows and their order. *)

LEMMA Order ==
  ASSUME NEW e \in Event, NEW f \in Event, NEW g \in Event
  PROVE  /\ ~Before(e, e)
         /\ Before(e, f) /\ Before(f, g) => Before(e, g)
         /\ e # f => Before(e, f) \/ Before(f, e)
         /\ Before(e, f) => e.time <= f.time
         /\ e.time \in Int
<1>1. \A x \in Event : x.time \in Int /\ x.id \in Int
  BY SilverAssumption
<1>2. e.id = f.id => e = f
  BY SilverAssumption
<1> QED
  BY <1>1, <1>2 DEF Before

IsFirst(T, e) == e \in T /\ \A g \in T : g = e \/ Before(e, g)
IsLast(T, e) == e \in T /\ \A g \in T : g = e \/ Before(g, e)

LEMMA FirstAndLast ==
  ASSUME NEW T \in SUBSET Event, T # {}
  PROVE  (\E e : IsFirst(T, e)) /\ (\E e : IsLast(T, e))
<1> DEFINE P == {U \in SUBSET T : U # {} => (\E e : IsFirst(U, e)) /\ (\E e : IsLast(U, e))}
<1>1. IsFiniteSet(T)
  BY SilverAssumption, FS_Subset
<1>2. {} \in P
  OBVIOUS
<1>3. ASSUME NEW U \in SUBSET T, NEW x \in T \ U, U \in P PROVE U \cup {x} \in P
  <2>1. CASE U = {}
    <3>1. IsFirst(U \cup {x}, x) /\ IsLast(U \cup {x}, x)
      BY <2>1 DEF IsFirst, IsLast
    <3> QED
      BY <3>1
  <2>2. CASE U # {}
    <3>1. PICK a : IsFirst(U, a)
      BY <1>3, <2>2
    <3>2. PICK b : IsLast(U, b)
      BY <1>3, <2>2
    <3>3. x \in Event /\ a \in Event /\ b \in Event /\ U \subseteq Event /\ a # x /\ b # x
      BY <3>1, <3>2 DEF IsFirst, IsLast
    <3>4. IsFirst(U \cup {x}, a) \/ IsFirst(U \cup {x}, x)
      <4>1. CASE Before(a, x)
        BY <4>1, <3>1 DEF IsFirst
      <4>2. CASE Before(x, a)
        BY <4>2, <3>1, <3>3, Order DEF IsFirst
      <4> QED
        BY <4>1, <4>2, <3>3, Order
    <3>5. IsLast(U \cup {x}, b) \/ IsLast(U \cup {x}, x)
      <4>1. CASE Before(x, b)
        BY <4>1, <3>2 DEF IsLast
      <4>2. CASE Before(b, x)
        BY <4>2, <3>2, <3>3, Order DEF IsLast
      <4> QED
        BY <4>1, <4>2, <3>3, Order
    <3> QED
      BY <3>4, <3>5
  <2> QED
    BY <2>1, <2>2
<1> HIDE DEF P
<1>4. T \in P
  BY <1>1, <1>2, <1>3, FiniteSetInduction
<1> QED
  BY <1>4 DEF P

-----------------------------------------------------------------------------
(* Derived sessions. *)

Bare(S) == {e \in S : e.session = None}
\* The rows without an id that a user had on the date until f.
UpTo(S, f) == {g \in Bare(S) : (g.user = f.user /\ Date(g) = Date(f)) /\ (g = f \/ Before(g, f))}
Gap(S, e, f) == {g \in S : g.user = e.user /\ Date(g) = Date(e) /\ Before(e, g) /\ Before(g, f)}
Unbroken(S, e, f) ==
  LET R == Gap(S, e, f) \cup {e, f}
  IN R \subseteq Bare(S) /\ \A g \in R \ {f} : \E h \in R : Before(g, h) /\ h.time - g.time <= Inactivity

\* The row that is last among those of the window before e is what lag sees.
LEMMA PreviousIs ==
  ASSUME NEW S \in SUBSET Event, NEW e \in S, NEW p \in Window(S, e), Before(p, e),
         \A g \in Window(S, e) : Before(g, e) => g = p \/ Before(g, p)
  PROVE  Previous(S, e) = {p}
<1> DEFINE W == {f \in Window(S, e) : Before(f, e)}
<1>1. p \in W /\ \A g \in W : g = p \/ Before(g, p)
  OBVIOUS
<1>2. W \subseteq Event
  BY DEF Window
<1>3. ASSUME NEW f \in W, \A g \in W : g = f \/ Before(g, f) PROVE f = p
  BY <1>1, <1>2, <1>3, Order
<1>4. Previous(S, e) = {f \in W : \A g \in W : g = f \/ Before(g, f)}
  BY DEF Previous
<1> QED
  BY <1>1, <1>3, <1>4

\* Between two rows without an id, no row starts a session exactly when the rows in between are as
\* docs/pipeline.md says.
LEMMA NoBreakBetween ==
  ASSUME NEW S \in SUBSET Event, NEW e \in Bare(S), NEW f \in Bare(S), Before(e, f),
         e.user = f.user, Date(e) = Date(f)
  PROVE  (\A g \in Gap(S, e, f) \cup {f} : ~DerivedBreak(S, g)) <=> Unbroken(S, e, f)
<1> DEFINE R == Gap(S, e, f) \cup {e, f}
<1>1. /\ e \in S /\ f \in S /\ R \subseteq S /\ R \subseteq Event /\ e # f /\ e \in R /\ f \in R
      /\ \A g \in R : g = f \/ Before(g, f)
      /\ \A g \in R : g = e \/ Before(e, g)
  BY Order DEF Bare, Gap
<1>2. ASSUME NEW g \in R PROVE Window(S, g) = Window(S, e)
  BY DEF Window, Gap
<1>3. ASSUME NEW g \in Window(S, e), g = e \/ Before(e, g), g = f \/ Before(g, f) PROVE g \in R
  BY <1>3 DEF Window, Gap
<1>4. ASSUME NEW h \in R, h # e
      PROVE  \E p \in R : /\ p # f /\ Before(p, h) /\ Previous(S, h) = {p}
                          /\ \A g \in R : Before(p, g) => g = h \/ Before(h, g)
  <2> DEFINE T == {g \in R : Before(g, h)}
  <2>1. e \in T /\ T \subseteq Event
    BY <1>1, <1>4
  <2>2. PICK p : IsLast(T, p)
    BY <2>1, FirstAndLast
  <2>3. p \in R /\ Before(p, h) /\ p \in Event /\ h \in Event
    BY <2>2, <1>1 DEF IsLast
  <2>4. p # f
    BY <2>3, <1>1, Order
  <2>5. ASSUME NEW g \in Window(S, h), Before(g, h) PROVE g = p \/ Before(g, p)
    <3>1. g \in Window(S, e) /\ g \in Event
      BY <1>2 DEF Window
    <3>2. CASE g = e \/ Before(e, g)
      <4>1. Before(g, f)
        BY <2>3, <2>5, <3>1, <1>1, Order
      <4>2. g \in T
        BY <1>3, <2>5, <3>1, <3>2, <4>1
      <4> QED
        BY <4>2, <2>2 DEF IsLast
    <3>3. CASE Before(g, e)
      BY <2>3, <3>1, <3>3, <1>1, Order
    <3> QED
      BY <3>1, <3>2, <3>3, <1>1, Order
  <2>6. p \in Window(S, h) /\ h \in S
    <3>1. Window(S, p) = Window(S, h) /\ p \in S
      BY <1>1, <1>2, <2>3
    <3> QED
      BY <1>1, <3>1 DEF Window
  <2>7. Previous(S, h) = {p}
    BY <2>3, <2>5, <2>6, PreviousIs
  <2>8. ASSUME NEW g \in R, Before(p, g) PROVE g = h \/ Before(h, g)
    <3>1. g \in Event
      BY <1>1
    <3>2. ~Before(g, h)
      <4>1. Before(g, h) => g = p \/ Before(g, p)
        BY <2>2 DEF IsLast
      <4> QED
        BY <4>1, <2>3, <2>8, <3>1, Order
    <3> QED
      BY <2>3, <3>1, <3>2, Order
  <2> QED
    BY <2>3, <2>4, <2>7, <2>8
<1>5. ASSUME NEW g \in R, g # f
      PROVE  \E h \in R : h # e /\ Before(g, h) /\ Previous(S, h) = {g}
  <2> DEFINE T == {h \in R : Before(g, h)}
  <2>1. f \in T /\ T \subseteq Event
    BY <1>1, <1>5
  <2>2. PICK h : IsFirst(T, h)
    BY <2>1, FirstAndLast
  <2>3. h \in R /\ Before(g, h) /\ g \in Event /\ h \in Event
    BY <2>2, <1>1 DEF IsFirst
  <2>4. h # e
    BY <2>3, <1>1, Order
  <2>5. PICK p \in R : /\ p # f /\ Before(p, h) /\ Previous(S, h) = {p}
                       /\ \A x \in R : Before(p, x) => x = h \/ Before(h, x)
    BY <1>4, <2>3, <2>4
  <2>6. p = g
    <3>1. p \in Event
      BY <1>1
    <3>2. ~Before(g, p)
      <4>1. Before(g, p) => p = h \/ Before(h, p)
        BY <2>2 DEF IsFirst
      <4> QED
        BY <4>1, <2>3, <2>5, <3>1, Order
    <3>3. ~Before(p, g)
      <4>1. Before(p, g) => g = h \/ Before(h, g)
        BY <2>5
      <4> QED
        BY <4>1, <2>3, <3>1, Order
    <3> QED
      BY <2>3, <3>1, <3>2, <3>3, Order
  <2> QED
    BY <2>3, <2>4, <2>5, <2>6
<1>6. \A h \in R \ {e} : h \in Gap(S, e, f) \cup {f}
  OBVIOUS
<1>7. \A h \in Gap(S, e, f) \cup {f} : h \in R /\ h # e
  BY <1>1, Order DEF Gap
<1>8. ASSUME \A g \in Gap(S, e, f) \cup {f} : ~DerivedBreak(S, g) PROVE Unbroken(S, e, f)
  <2> DEFINE Given == {g \in R : g.session # None}
  <2>1. Given = {}
    <3> SUFFICES ASSUME Given # {} PROVE FALSE
      OBVIOUS
    <3>1. Given \subseteq Event /\ Given \subseteq R
      BY <1>1
    <3> HIDE DEF R
    <3>2. PICK g : IsLast(Given, g)
      BY <3>1, FirstAndLast
    <3>3. g \in R /\ g.session # None /\ g # f
      BY <3>2 DEF IsLast, Bare
    <3>4. PICK h \in R : h # e /\ Before(g, h) /\ Previous(S, h) = {g}
      BY <1>5, <3>3
    <3>5. h.session = None
      <4>1. h.session # None => h = g \/ Before(h, g)
        BY <3>2 DEF IsLast
      <4> QED
        BY <4>1, <3>3, <3>4, <1>1, Order
    <3>6. DerivedBreak(S, h)
      BY <3>3, <3>4, <3>5 DEF DerivedBreak
    <3> QED
      BY <1>6, <1>8, <3>4, <3>6
  <2>2. R \subseteq Bare(S)
    BY <2>1, <1>1 DEF Bare
  <2>3. ASSUME NEW g \in R \ {f} PROVE \E h \in R : Before(g, h) /\ h.time - g.time <= Inactivity
    <3>1. PICK h \in R : h # e /\ Before(g, h) /\ Previous(S, h) = {g}
      BY <1>5, <2>3
    <3>2. ~DerivedBreak(S, h) /\ h.session = None
      BY <3>1, <1>6, <1>8, <2>2 DEF Bare
    <3>3. ~(h.time - g.time > Inactivity) /\ h.time \in Int /\ g.time \in Int /\ Inactivity \in Int
      BY <3>1, <3>2, <1>1, Order, MartAssumption DEF DerivedBreak
    <3> QED
      BY <3>1, <3>3
  <2> QED
    BY <2>2, <2>3 DEF Unbroken
<1>9. ASSUME Unbroken(S, e, f), NEW h \in Gap(S, e, f) \cup {f} PROVE ~DerivedBreak(S, h)
  <2>1. h \in R /\ h # e
    BY <1>7
  <2>2. PICK p \in R : /\ p # f /\ Before(p, h) /\ Previous(S, h) = {p}
                       /\ \A g \in R : Before(p, g) => g = h \/ Before(h, g)
    BY <1>4, <2>1
  <2>3. PICK g \in R : Before(p, g) /\ g.time - p.time <= Inactivity
    BY <1>9, <2>2 DEF Unbroken
  <2>4. p.session = None
    BY <1>9, <2>2 DEF Unbroken, Bare
  <2>5. h.time <= g.time
    BY <2>1, <2>2, <2>3, <1>1, Order
  <2>6. {h.time, g.time, p.time} \subseteq Int /\ Inactivity \in Int
    BY <2>1, <1>1, Order, MartAssumption
  <2>7. ~(h.time - p.time > Inactivity)
    BY <2>3, <2>5, <2>6
  <2> QED
    BY <2>2, <2>4, <2>7 DEF DerivedBreak
<1> QED
  BY <1>8, <1>9

\* A later row of a window has the sessions started until the earlier one, and those started since.
LEMMA IndexGrows ==
  ASSUME NEW S \in SUBSET Event, NEW e \in Bare(S), NEW f \in Bare(S), Before(e, f),
         e.user = f.user, Date(e) = Date(f)
  PROVE  /\ DerivedIndex(S, e) \in Nat /\ DerivedIndex(S, f) \in Nat /\ Cardinality(UpTo(S, f)) \in Nat
         /\ DerivedIndex(S, e) <= Cardinality(UpTo(S, f)) /\ DerivedIndex(S, f) <= Cardinality(UpTo(S, f))
         /\ (DerivedIndex(S, e) = DerivedIndex(S, f)) <=> \A g \in Gap(S, e, f) \cup {f} : ~DerivedBreak(S, g)
<1> DEFINE W == Window(S, e)
           until(x) == {g \in W : (g = x \/ Before(g, x)) /\ DerivedBreak(S, g)}
           since == {g \in Gap(S, e, f) \cup {f} : DerivedBreak(S, g)}
           mine == UpTo(S, f)
<1>1. e \in Event /\ f \in Event /\ e # f /\ Window(S, f) = W /\ W \subseteq Event /\ f \in W
  BY Order DEF Bare, Window
<1>2. DerivedIndex(S, e) = Cardinality(until(e)) /\ DerivedIndex(S, f) = Cardinality(until(f))
  BY <1>1 DEF DerivedIndex
<1>3. until(f) \subseteq mine
  BY DEF Window, DerivedBreak, UpTo, Bare
<1>4. IsFiniteSet(mine)
  <2>1. mine \subseteq Event
    BY DEF UpTo, Bare
  <2> QED
    BY <2>1, SilverAssumption, FS_Subset
<1>5. until(f) = until(e) \cup since
  <2>1. ASSUME NEW g \in W
        PROVE  (g = f \/ Before(g, f)) <=> (g = e \/ Before(g, e)) \/ g \in Gap(S, e, f) \cup {f}
    <3>1. g \in Event
      BY <1>1
    <3>2. g \in Gap(S, e, f) <=> Before(e, g) /\ Before(g, f)
      BY DEF Gap, Window
    <3> QED
      BY <1>1, <3>1, <3>2, Order
  <2>2. Gap(S, e, f) \cup {f} \subseteq W
    BY <1>1 DEF Gap, Window
  <2> QED
    BY <2>1, <2>2
<1>6. until(e) \cap since = {}
  <2>1. ASSUME NEW g \in Gap(S, e, f) \cup {f} PROVE ~(g = e \/ Before(g, e))
    <3>1. g \in Event /\ Before(e, g)
      BY <1>1 DEF Gap
    <3> QED
      BY <1>1, <3>1, Order
  <2> QED
    BY <2>1
<1> DEFINE a == until(e)
           b == until(f)
<1>7. a \subseteq mine /\ b \subseteq mine /\ b = a \cup since /\ a \cap since = {}
  BY <1>3, <1>5, <1>6
<1> HIDE DEF until, a, b, mine
<1>8. /\ IsFiniteSet(a) /\ IsFiniteSet(b) /\ IsFiniteSet(since)
      /\ Cardinality(a) \in Nat /\ Cardinality(b) \in Nat /\ Cardinality(mine) \in Nat
      /\ Cardinality(a) <= Cardinality(mine) /\ Cardinality(b) <= Cardinality(mine)
  <2>1. since \subseteq b
    BY <1>7
  <2> HIDE DEF since
  <2> QED
    BY <2>1, <1>4, <1>7, FS_Subset, FS_CardinalityType
<1> HIDE DEF since
<1>9. Cardinality(b) = Cardinality(a) + Cardinality(since)
  <2>1. Cardinality(a \cup since) = Cardinality(a) + Cardinality(since) - Cardinality(a \cap since)
    BY <1>8, FS_Union
  <2>2. Cardinality(a \cap since) = 0 /\ Cardinality(since) \in Nat
    BY <1>7, <1>8, FS_EmptySet, FS_CardinalityType
  <2>3. Cardinality(b) = Cardinality(a) + Cardinality(since) - 0
    BY <2>1, <2>2, <1>7
  <2> QED
    BY <2>2, <2>3, <1>8
<1>10. (Cardinality(a) = Cardinality(b)) <=> since = {}
  BY <1>8, <1>9, FS_EmptySet, FS_CardinalityType
<1>11. DerivedIndex(S, e) = Cardinality(a) /\ DerivedIndex(S, f) = Cardinality(b)
  BY <1>2 DEF a, b
<1>12. since = {} <=> \A g \in Gap(S, e, f) \cup {f} : ~DerivedBreak(S, g)
  BY DEF since
<1> QED
  BY <1>8, <1>10, <1>11, <1>12 DEF mine

LEMMA DerivedIds ==
  ASSUME NEW S \in SUBSET Event, NEW e \in Bare(S), NEW f \in Bare(S), Before(e, f)
  PROVE  /\ (e.user = f.user /\ Date(e) = Date(f)) /\ Unbroken(S, e, f) => Sessionized(S)[e] = Sessionized(S)[f]
         /\ Sessionized(S)[e] = Sessionized(S)[f] =>
              /\ e.user = f.user /\ Date(e) = Date(f)
              /\ Unbroken(S, e, f) \/ Cardinality(UpTo(S, f)) >= PadLimit
<1> DEFINE id(x) == <<"derived", x.user, Date(x), Lpad(DerivedIndex(S, x))>>
<1>1. Sessionized(S)[e] = id(e) /\ Sessionized(S)[f] = id(f)
  BY DEF Sessionized, SessionId, Bare
<1>2. (id(e) = id(f)) <=> (e.user = f.user /\ Date(e) = Date(f) /\ Lpad(DerivedIndex(S, e)) = Lpad(DerivedIndex(S, f)))
  OBVIOUS
<1> HIDE DEF id
<1>3. ASSUME e.user = f.user, Date(e) = Date(f)
      PROVE  /\ Unbroken(S, e, f) => Lpad(DerivedIndex(S, e)) = Lpad(DerivedIndex(S, f))
             /\ Lpad(DerivedIndex(S, e)) = Lpad(DerivedIndex(S, f)) =>
                  Unbroken(S, e, f) \/ Cardinality(UpTo(S, f)) >= PadLimit
  <2> DEFINE i == DerivedIndex(S, e)
             k == DerivedIndex(S, f)
             n == Cardinality(UpTo(S, f))
  <2>1. /\ i \in Nat /\ k \in Nat /\ n \in Nat /\ i <= n /\ k <= n
        /\ (i = k) <=> \A g \in Gap(S, e, f) \cup {f} : ~DerivedBreak(S, g)
    BY <1>3, IndexGrows
  <2>2. (\A g \in Gap(S, e, f) \cup {f} : ~DerivedBreak(S, g)) <=> Unbroken(S, e, f)
    BY <1>3, NoBreakBetween
  <2>3. (i = k) <=> Unbroken(S, e, f)
    BY <2>1, <2>2
  <2>4. PadLimit \in Nat
    BY MartAssumption
  <2> HIDE DEF i, k, n
  <2>5. n >= PadLimit \/ (Lpad(i) = i /\ Lpad(k) = k)
    BY <2>1, <2>4 DEF Lpad
  <2>6. i = k => Lpad(i) = Lpad(k)
    OBVIOUS
  <2> QED
    BY <2>3, <2>5, <2>6 DEF i, k, n
<1> QED
  BY <1>1, <1>2, <1>3

\* Silver holds rows that may come to it.
RowsOK == silver \in SUBSET Event

LEMMA SilverIsRows == Spec => []RowsOK
<1>1. Init => RowsOK
  BY DEF Init, RowsOK
<1>2. RowsOK /\ [Next]_vars => RowsOK'
  BY GoldAssumption DEF Next, Publish, vars, RowsOK
<1> QED
  BY <1>1, <1>2, PTL DEF Spec

\* However Silver grew, two rows without a session id get the same derived id when they belong to one
\* run of such rows (build_sessionized_events), and only then unless lpad has cut a number.
THEOREM DerivedSessionsAlways == Spec => []DerivedSessions
<1>1. ASSUME RowsOK PROVE DerivedSessions
  <2>1. ASSUME NEW e \in Bare(silver), NEW f \in Bare(silver), Before(e, f)
        PROVE  /\ (e.user = f.user /\ Date(e) = Date(f)) /\ Unbroken(silver, e, f) =>
                    Sessionized(silver)[e] = Sessionized(silver)[f]
               /\ Sessionized(silver)[e] = Sessionized(silver)[f] =>
                    /\ e.user = f.user /\ Date(e) = Date(f)
                    /\ Unbroken(silver, e, f) \/ Cardinality(UpTo(silver, f)) >= PadLimit
    BY <1>1, <2>1, DerivedIds DEF RowsOK
  <2> QED
    BY <2>1 DEF DerivedSessions, Bare, Unbroken, Gap, UpTo
<1> QED
  BY <1>1, SilverIsRows, PTL

-----------------------------------------------------------------------------
(* Sums over finite sets. *)

\* The table of the sums of h over the subsets of S, as SumFunctionOnSet builds it.
Some(s) == CHOOSE x \in s : TRUE
Summing(h, S, it) == it = [s \in SUBSET S |-> IF s = {} THEN 0 ELSE h[Some(s)] + it[s \ {Some(s)}]]
Adding(h, S, it) ==
  /\ it[{}] = 0
  /\ \A s \in SUBSET S : it[s] \in Int /\ \A x \in s : it[s] = h[x] + it[s \ {x}]
Integral(h, S) == \A x \in S : h[x] \in Int

LEMMA Removed ==
  ASSUME NEW s, IsFiniteSet(s), NEW x \in s
  PROVE  /\ IsFiniteSet(s \ {x}) /\ Cardinality(s) \in Nat \ {0} /\ Cardinality(s \ {x}) = Cardinality(s) - 1
         /\ Some(s) \in s
<1>1. Cardinality(s) \in Nat /\ Cardinality(s) # 0
  BY FS_CardinalityType, FS_EmptySet
<1>2. IsFiniteSet(s \ {x}) /\ Cardinality(s \ {x}) = Cardinality(s) - 1
  BY FS_RemoveElement
<1> QED
  BY <1>1, <1>2 DEF Some

LEMMA SumTable ==
  ASSUME NEW h, NEW S, IsFiniteSet(S)
  PROVE  \E it : Summing(h, S, it) /\ SumFunctionOnSet(h, S) = it[S]
<1> DEFINE N == Cardinality(S)
           body(it, s) == IF s = {} THEN 0 ELSE h[Some(s)] + it[s \ {Some(s)}]
           P == {n \in 0 .. N : \E it : \A s \in SUBSET S : Cardinality(s) <= n => it[s] = body(it, s)}
<1>1. N \in Nat /\ \A s \in SUBSET S : IsFiniteSet(s) /\ Cardinality(s) \in 0 .. N
  BY FS_Subset, FS_CardinalityType
<1>2. 0 \in P
  <2> DEFINE it == [s \in SUBSET S |-> 0]
  <2>1. ASSUME NEW s \in SUBSET S, Cardinality(s) <= 0 PROVE it[s] = body(it, s)
    BY <1>1, <2>1, FS_EmptySet
  <2>2. 0 \in 0 .. N
    BY <1>1
  <2> QED
    BY <2>1, <2>2
<1>3. ASSUME NEW n \in 0 .. N - 1, n \in P PROVE n + 1 \in P
  <2>1. PICK it : \A s \in SUBSET S : Cardinality(s) <= n => it[s] = body(it, s)
    BY <1>3
  <2> DEFINE jt == [s \in SUBSET S |-> IF Cardinality(s) <= n THEN it[s] ELSE body(it, s)]
  <2>2. ASSUME NEW s \in SUBSET S, Cardinality(s) <= n + 1 PROVE jt[s] = body(jt, s)
    <3>1. CASE s = {}
      BY <3>1, <2>1, <1>1
    <3>2. CASE s # {}
      <4>1. s \ {Some(s)} \in SUBSET S /\ Cardinality(s \ {Some(s)}) = Cardinality(s) - 1 /\ Cardinality(s) \in Nat
        BY <3>2, <1>1, Removed
      <4>2. jt[s \ {Some(s)}] = it[s \ {Some(s)}]
        BY <4>1, <2>2, <1>1
      <4> QED
        BY <4>1, <4>2, <2>1, <2>2
    <3> QED
      BY <3>1, <3>2
  <2>3. n + 1 \in 0 .. N
    BY <1>1
  <2> HIDE DEF jt
  <2> QED
    BY <2>2, <2>3
<1> HIDE DEF P
<1>4. N \in P
  BY <1>1, <1>2, <1>3, CountInduction
<1>5. PICK it : \A s \in SUBSET S : it[s] = body(it, s)
  <2>1. PICK it : \A s \in SUBSET S : Cardinality(s) <= N => it[s] = body(it, s)
    BY <1>4 DEF P
  <2>2. \A s \in SUBSET S : Cardinality(s) <= N
    BY <1>1
  <2> QED
    BY <2>1, <2>2
<1> DEFINE jt == [s \in SUBSET S |-> it[s]]
<1>6. ASSUME NEW s \in SUBSET S PROVE jt[s] = body(jt, s)
  <2>1. s \ {Some(s)} \in SUBSET S
    OBVIOUS
  <2> QED
    BY <2>1, <1>5
<1>7. Summing(h, S, jt)
  BY <1>6 DEF Summing
<1> HIDE DEF jt
<1> DEFINE kt == CHOOSE kt : Summing(h, S, kt)
<1>8. Summing(h, S, kt)
  BY <1>7
<1>9. SumFunctionOnSet(h, S) = kt[S]
  BY DEF SumFunctionOnSet, FoldFunctionOnSet, MapThenFoldSet, Summing, Some
<1> QED
  BY <1>8, <1>9

\* Whichever element is taken out first, the sum is the same.
LEMMA SumTableStep ==
  ASSUME NEW h, NEW S, IsFiniteSet(S), Integral(h, S), NEW it, Summing(h, S, it)
  PROVE  Adding(h, S, it)
<1> USE DEF Integral
<1> DEFINE N == Cardinality(S)
           P == {n \in 0 .. N : \A s \in SUBSET S : Cardinality(s) <= n =>
                                  it[s] \in Int /\ \A x \in s : it[s] = h[x] + it[s \ {x}]}
<1>1. N \in Nat /\ \A s \in SUBSET S : IsFiniteSet(s) /\ Cardinality(s) \in 0 .. N
  BY FS_Subset, FS_CardinalityType
<1>2. it[{}] = 0
  BY DEF Summing
<1>3. 0 \in P
  <2>1. ASSUME NEW s \in SUBSET S, Cardinality(s) <= 0 PROVE s = {}
    BY <2>1, <1>1, FS_EmptySet
  <2> QED
    BY <1>1, <1>2, <2>1
<1>4. ASSUME NEW n \in 0 .. N - 1, n \in P PROVE n + 1 \in P
  <2>1. ASSUME NEW s \in SUBSET S, Cardinality(s) = n + 1, NEW x \in s
        PROVE  it[s] \in Int /\ it[s] = h[x] + it[s \ {x}]
    <3> DEFINE c == Some(s)
               r == (s \ {c}) \ {x}
    <3>1. c \in s /\ \A y \in s : s \ {y} \in SUBSET S /\ Cardinality(s \ {y}) = n
      <4>1. IsFiniteSet(s)
        BY <1>1
      <4>2. ASSUME NEW y \in s PROVE Cardinality(s \ {y}) = n /\ c \in s
        BY <1>1, <2>1, <4>1, Removed
      <4> QED
        BY <2>1, <4>2
    <3>2. it[s] = h[c] + it[s \ {c}]
      BY <2>1 DEF Summing
    <3> HIDE DEF c
    <3>3. \A y \in s : it[s \ {y}] \in Int /\ h[y] \in Int
      BY <1>4, <3>1
    <3>4. CASE x = c
      <4>1. it[s \ {c}] \in Int /\ h[c] \in Int
        BY <3>1, <3>3
      <4> QED
        BY <3>2, <3>4, <4>1
    <3>5. CASE x # c
      <4>1. it[s \ {c}] = h[x] + it[r]
        <5>1. x \in s \ {c} /\ s \ {c} \in SUBSET S /\ Cardinality(s \ {c}) <= n
          BY <3>1, <3>5
        <5> QED
          BY <1>4, <5>1
      <4>2. it[s \ {x}] = h[c] + it[r]
        <5>1. /\ c \in s \ {x} /\ (s \ {x}) \ {c} = r
              /\ s \ {x} \in SUBSET S /\ Cardinality(s \ {x}) <= n
          BY <3>1, <3>5
        <5> QED
          BY <1>4, <5>1
      <4>3. it[r] \in Int
        <5>1. r \in SUBSET S /\ r \in SUBSET (s \ {c}) /\ IsFiniteSet(s \ {c})
          BY <3>1, <1>1
        <5>2. Cardinality(r) <= n
          BY <5>1, <3>1, FS_Subset
        <5> QED
          BY <1>4, <5>1, <5>2
      <4> QED
        BY <3>1, <3>2, <3>3, <4>1, <4>2, <4>3
    <3> QED
      BY <3>4, <3>5
  <2>2. ASSUME NEW s \in SUBSET S, Cardinality(s) = n + 1
        PROVE  it[s] \in Int /\ \A x \in s : it[s] = h[x] + it[s \ {x}]
    <3>1. \E x : x \in s
      BY <2>2, <1>1, FS_EmptySet
    <3> QED
      BY <2>1, <2>2, <3>1
  <2>3. ASSUME NEW s \in SUBSET S, Cardinality(s) <= n + 1
        PROVE  it[s] \in Int /\ \A x \in s : it[s] = h[x] + it[s \ {x}]
    <3>1. Cardinality(s) <= n \/ Cardinality(s) = n + 1
      BY <1>1, <2>3
    <3> QED
      BY <1>4, <2>2, <3>1
  <2> QED
    BY <1>1, <2>3
<1> HIDE DEF P
<1>5. N \in P
  BY <1>1, <1>3, <1>4, CountInduction
<1> QED
  BY <1>1, <1>2, <1>5 DEF P, Adding

\* The tables of a set and of a part of it agree, on functions that agree there.
LEMMA SumTablesAgree ==
  ASSUME NEW S, IsFiniteSet(S), NEW T \in SUBSET S, NEW h, NEW k,
         Integral(h, S), \A x \in T : k[x] = h[x],
         NEW it, Summing(h, S, it), NEW jt, Summing(k, T, jt)
  PROVE  jt[T] = it[T]
<1> DEFINE P == {s \in SUBSET T : jt[s] = it[s]}
<1>1. IsFiniteSet(T) /\ Integral(k, T)
  BY FS_Subset DEF Integral
<1>2. Adding(h, S, it)
  BY SumTableStep
<1>3. Adding(k, T, jt)
  BY <1>1, SumTableStep
<1> HIDE DEF P
<1>4. {} \in P
  BY <1>2, <1>3 DEF P, Adding
<1>5. ASSUME NEW s \in SUBSET T, NEW x \in T \ s, s \in P PROVE s \cup {x} \in P
  <2> DEFINE t == s \cup {x}
  <2>1. t \ {x} = s /\ t \in SUBSET T /\ t \in SUBSET S /\ x \in t
    OBVIOUS
  <2> HIDE DEF t
  <2>2. jt[t] = k[x] + jt[t \ {x}] /\ it[t] = h[x] + it[t \ {x}]
    BY <2>1, <1>2, <1>3 DEF Adding
  <2>3. jt[t] = it[t]
    BY <1>5, <2>1, <2>2 DEF P
  <2> QED
    BY <2>1, <2>3 DEF P, t
<1>6. T \in P
  BY <1>1, <1>4, <1>5, FiniteSetInduction
<1> QED
  BY <1>6 DEF P

\* A sum looks at the values of the function on the set, and one element more adds its value.
LEMMA SumFacts ==
  ASSUME NEW S, IsFiniteSet(S), NEW h, Integral(h, S)
  PROVE  /\ SumFunctionOnSet(h, S) \in Int
         /\ S = {} => SumFunctionOnSet(h, S) = 0
         /\ \A x \in S : SumFunctionOnSet(h, S) = h[x] + SumFunctionOnSet(h, S \ {x})
<1>1. PICK it : Summing(h, S, it) /\ SumFunctionOnSet(h, S) = it[S]
  BY SumTable
<1>2. it[{}] = 0 /\ it[S] \in Int /\ \A x \in S : it[S] = h[x] + it[S \ {x}]
  <2>1. Adding(h, S, it)
    BY <1>1, SumTableStep
  <2> QED
    BY <2>1 DEF Adding
<1>3. ASSUME NEW x \in S PROVE it[S \ {x}] = SumFunctionOnSet(h, S \ {x})
  <2>1. S \ {x} \in SUBSET S /\ IsFiniteSet(S \ {x})
    BY FS_Subset
  <2>2. PICK jt : Summing(h, S \ {x}, jt) /\ SumFunctionOnSet(h, S \ {x}) = jt[S \ {x}]
    BY <2>1, SumTable
  <2> QED
    BY <1>1, <2>1, <2>2, SumTablesAgree
<1> QED
  BY <1>1, <1>2, <1>3

LEMMA SumSame ==
  ASSUME NEW S, IsFiniteSet(S), NEW h, NEW k, Integral(h, S), \A x \in S : k[x] = h[x]
  PROVE  SumFunctionOnSet(k, S) = SumFunctionOnSet(h, S)
<1>1. PICK it : Summing(h, S, it) /\ SumFunctionOnSet(h, S) = it[S]
  BY SumTable
<1>2. PICK jt : Summing(k, S, jt) /\ SumFunctionOnSet(k, S) = jt[S]
  BY SumTable
<1> QED
  BY <1>1, <1>2, SumTablesAgree

\* The sum over two sets without common element.
LEMMA SumDisjoint ==
  ASSUME NEW A, NEW B, IsFiniteSet(A), IsFiniteSet(B), A \cap B = {}, NEW h, Integral(h, A \cup B)
  PROVE  SumFunctionOnSet(h, A \cup B) = SumFunctionOnSet(h, A) + SumFunctionOnSet(h, B)
<1> DEFINE sum(s) == SumFunctionOnSet(h, s)
           P == {s \in SUBSET B : sum(A \cup s) = sum(A) + sum(s)}
<1>1. \A s \in SUBSET (A \cup B) : IsFiniteSet(s) /\ Integral(h, s)
  BY FS_Union, FS_Subset DEF Integral
<1>2. \A s \in SUBSET (A \cup B) : sum(s) \in Int
  BY <1>1, SumFacts
<1>3. ASSUME NEW s \in SUBSET (A \cup B), NEW x \in s PROVE sum(s) = h[x] + sum(s \ {x})
  BY <1>1, SumFacts
<1>4. sum({}) = 0
  BY <1>1, SumFacts
<1> HIDE DEF sum
<1>5. {} \in P
  <2>1. A \cup {} = A
    OBVIOUS
  <2> QED
    BY <1>2, <1>4, <2>1
<1>6. ASSUME NEW s \in SUBSET B, NEW x \in B \ s, s \in P PROVE s \cup {x} \in P
  <2>1. /\ (s \cup {x}) \ {x} = s /\ s \cup {x} \in SUBSET B /\ x \in s \cup {x} /\ x \in A \cup (s \cup {x})
        /\ (A \cup (s \cup {x})) \ {x} = A \cup s
    OBVIOUS
  <2>2. sum(s \cup {x}) = h[x] + sum(s)
    BY <2>1, <1>3
  <2>3. sum(A \cup (s \cup {x})) = h[x] + sum(A \cup s)
    BY <2>1, <1>3
  <2>4. sum(A) \in Int /\ sum(s) \in Int /\ h[x] \in Int
    BY <1>2 DEF Integral
  <2> QED
    BY <1>6, <2>1, <2>2, <2>3, <2>4
<1> HIDE DEF P
<1>7. B \in P
  BY <1>5, <1>6, FiniteSetInduction
<1> QED
  BY <1>7 DEF P, sum

\* A measure of sets of rows adds up over sets without common row.
Additive(m, S) ==
  /\ m[{}] = 0
  /\ \A A \in SUBSET S : m[A] \in Int
  /\ \A A, B \in SUBSET S : A \cap B = {} => m[A \cup B] = m[A] + m[B]
Apart(groups) == \A G, H \in groups : G # H => G \cap H = {}

\* One row for each group, and the value of a column of it.
Rows(row, groups) == {row[G] : G \in groups}
OneEach(row, groups) == \A G, H \in groups : row[G] = row[H] => G = H
Column(v, row, groups, m) == \A G \in groups : v[row[G]] = m[G]

\* The sum of a measure over rows that stand for one group each is the measure of all groups.
LEMMA SumOfParts ==
  ASSUME NEW S, NEW m, Additive(m, S), NEW groups \in SUBSET SUBSET S, IsFiniteSet(groups), Apart(groups),
         NEW row, OneEach(row, groups), NEW v, Column(v, row, groups, m)
  PROVE  SumFunctionOnSet(v, Rows(row, groups)) = m[UNION groups]
<1> DEFINE rows(C) == Rows(row, C)
           P == {C \in SUBSET groups : IsFiniteSet(rows(C)) /\ SumFunctionOnSet(v, rows(C)) = m[UNION C]}
<1>1. ASSUME NEW C \in SUBSET groups PROVE Integral(v, rows(C)) /\ UNION C \in SUBSET S
  BY DEF Integral, Additive, Column, Rows
<1>2. {} \in P
  <2>1. rows({}) = {} /\ UNION {} = {} /\ Integral(v, {})
    BY DEF Integral, Rows
  <2>2. IsFiniteSet({}) /\ SumFunctionOnSet(v, {}) = 0
    BY <2>1, FS_EmptySet, SumFacts
  <2> HIDE DEF rows
  <2> QED
    BY <2>1, <2>2 DEF Additive
<1>3. ASSUME NEW C \in SUBSET groups, NEW G \in groups \ C, C \in P PROVE C \cup {G} \in P
  <2> DEFINE D == C \cup {G}
             x == row[G]
             old == rows(C)
             new == rows(D)
  <2>1. new = old \cup {x} /\ x \notin old
    BY DEF OneEach, Rows
  <2>2. Integral(v, new) /\ UNION C \in SUBSET S /\ D \in SUBSET groups
    BY <1>1
  <2>3. UNION D = (UNION C) \cup G /\ (UNION C) \cap G = {} /\ G \in SUBSET S
    BY DEF Apart
  <2>4. v[x] = m[G] /\ SumFunctionOnSet(v, old) = m[UNION C] /\ IsFiniteSet(old)
    BY <1>3 DEF Column
  <2> HIDE DEF new, old, x
  <2>5. IsFiniteSet(new) /\ new \ {x} = old /\ x \in new
    BY <2>1, <2>4, FS_AddElement
  <2>6. SumFunctionOnSet(v, new) = v[x] + SumFunctionOnSet(v, new \ {x})
    BY <2>2, <2>5, SumFacts
  <2>7. m[UNION D] = m[UNION C] + m[G] /\ m[G] \in Int /\ m[UNION C] \in Int
    BY <2>2, <2>3 DEF Additive
  <2>8. SumFunctionOnSet(v, new) = m[G] + m[UNION C]
    BY <2>4, <2>5, <2>6
  <2>9. SumFunctionOnSet(v, new) = m[UNION D]
    BY <2>7, <2>8
  <2> QED
    BY <2>2, <2>5, <2>9 DEF new
<1> HIDE DEF P
<1>4. groups \in P
  BY <1>2, <1>3, FiniteSetInduction
<1> QED
  BY <1>4 DEF P

-----------------------------------------------------------------------------
(* The counters. *)

LEMMA TypesDisjoint ==
  ASSUME NEW A \in SUBSET Event, NEW B \in SUBSET Event, A \cap B = {}, NEW t
  PROVE  /\ OfType(A \cup B, t) = OfType(A, t) \cup OfType(B, t)
         /\ OfType(A, t) \cap OfType(B, t) = {}
         /\ IsFiniteSet(OfType(A, t)) /\ IsFiniteSet(OfType(B, t))
<1>1. OfType(A, t) \subseteq Event /\ OfType(B, t) \subseteq Event
  BY DEF OfType
<1> QED
  BY <1>1, SilverAssumption, FS_Subset DEF OfType

LEMMA NothingCounted == \A t : OfType({}, t) = {} /\ Revenue({}) = 0
<1>1. \A t : OfType({}, t) = {}
  BY DEF OfType
<1> DEFINE h == [e \in {} |-> Price(e)]
<1>2. IsFiniteSet({}) /\ Integral(h, {})
  BY FS_EmptySet DEF Integral
<1>3. SumFunctionOnSet(h, {}) = 0
  BY <1>2, SumFacts
<1>4. Revenue({}) = SumFunctionOnSet(h, {})
  BY <1>1 DEF Revenue, SumFunction
<1> QED
  BY <1>1, <1>3, <1>4

LEMMA RevenueIsSum ==
  ASSUME NEW A \in SUBSET Event, NEW h, \A e \in A : h[e] = Price(e)
  PROVE  /\ Integral(h, OfType(A, "purchase")) /\ IsFiniteSet(OfType(A, "purchase"))
         /\ Revenue(A) = SumFunctionOnSet(h, OfType(A, "purchase"))
         /\ Revenue(A) \in Int
<1> DEFINE T == OfType(A, "purchase")
           k == [e \in T |-> Price(e)]
<1>1. T \subseteq A /\ IsFiniteSet(T)
  BY SilverAssumption, FS_Subset DEF OfType
<1>2. \A e \in A : Price(e) \in Int
  BY SilverAssumption DEF Price
<1>3. Integral(h, T) /\ \A e \in T : k[e] = h[e]
  BY <1>1, <1>2 DEF Integral
<1>4. SumFunctionOnSet(k, T) = SumFunctionOnSet(h, T) /\ SumFunctionOnSet(h, T) \in Int
  BY <1>1, <1>3, SumSame, SumFacts
<1>5. Revenue(A) = SumFunctionOnSet(k, T)
  BY DEF Revenue, SumFunction
<1> QED
  BY <1>1, <1>3, <1>4, <1>5

LEMMA CountsAdd ==
  ASSUME NEW S \in SUBSET Event
  PROVE  /\ \A t : Additive([A \in SUBSET S |-> Cardinality(OfType(A, t))], S)
         /\ Additive([A \in SUBSET S |-> Revenue(A)], S)
<1>1. ASSUME NEW t PROVE Additive([A \in SUBSET S |-> Cardinality(OfType(A, t))], S)
  <2>1. ASSUME NEW A \in SUBSET S, NEW B \in SUBSET S, A \cap B = {}
        PROVE  /\ Cardinality(OfType(A, t)) \in Int
               /\ Cardinality(OfType(A \cup B, t)) = Cardinality(OfType(A, t)) + Cardinality(OfType(B, t))
    BY <2>1, TypesDisjoint, CardDisjoint
  <2>2. Cardinality(OfType({}, t)) = 0
    BY NothingCounted, FS_EmptySet
  <2>3. ASSUME NEW A \in SUBSET S PROVE Cardinality(OfType(A, t)) \in Int
    <3>1. {} \in SUBSET S /\ A \cap {} = {}
      OBVIOUS
    <3> QED
      BY <2>1, <3>1
  <2> QED
    BY <2>1, <2>2, <2>3 DEF Additive
<1>2. Additive([A \in SUBSET S |-> Revenue(A)], S)
  <2> DEFINE h == [e \in S |-> Price(e)]
             of(A) == OfType(A, "purchase")
  <2>1. ASSUME NEW A \in SUBSET S, NEW B \in SUBSET S, A \cap B = {}
        PROVE  Revenue(A \cup B) = Revenue(A) + Revenue(B)
    <3>1. A \cup B \in SUBSET Event /\ A \in SUBSET Event /\ B \in SUBSET Event
      OBVIOUS
    <3>2. /\ Integral(h, of(A \cup B))
          /\ Revenue(A) = SumFunctionOnSet(h, of(A)) /\ Revenue(B) = SumFunctionOnSet(h, of(B))
          /\ Revenue(A \cup B) = SumFunctionOnSet(h, of(A \cup B))
      BY <3>1, RevenueIsSum
    <3>3. /\ of(A \cup B) = of(A) \cup of(B) /\ of(A) \cap of(B) = {}
          /\ IsFiniteSet(of(A)) /\ IsFiniteSet(of(B))
      BY <2>1, <3>1, TypesDisjoint
    <3> HIDE DEF h, of
    <3> QED
      BY <3>2, <3>3, SumDisjoint
  <2>2. \A A \in SUBSET S : Revenue(A) \in Int
    <3>1. ASSUME NEW A \in SUBSET S PROVE Revenue(A) \in Int
      <4>1. A \in SUBSET Event /\ \A e \in A : h[e] = Price(e)
        OBVIOUS
      <4> HIDE DEF h
      <4> QED
        BY <4>1, RevenueIsSum
    <3> QED
      BY <3>1
  <2> QED
    BY <2>1, <2>2, NothingCounted DEF Additive
<1> QED
  BY <1>1, <1>2

\* Rows that stand for one group each, with its counters, add up to the counters of all rows.
LEMMA TotalOfParts ==
  ASSUME NEW S \in SUBSET Event, NEW groups \in SUBSET SUBSET S, Apart(groups), UNION groups = S,
         NEW row, OneEach(row, groups),
         \A G \in groups : row[G].counts = Counts(G)
  PROVE  Total(Rows(row, groups)) = Counts(S)
<1> DEFINE rows == Rows(row, groups)
           seen == [A \in SUBSET S |-> Cardinality(OfType(A, "view"))]
           carted == [A \in SUBSET S |-> Cardinality(OfType(A, "cart"))]
           bought == [A \in SUBSET S |-> Cardinality(OfType(A, "purchase"))]
           money == [A \in SUBSET S |-> Revenue(A)]
           views == [r \in rows |-> r.counts.views]
           carts == [r \in rows |-> r.counts.carts]
           purchases == [r \in rows |-> r.counts.purchases]
           revenue == [r \in rows |-> r.counts.revenue]
<1>1. IsFiniteSet(groups)
  <2>1. IsFiniteSet(S)
    BY SilverAssumption, FS_Subset
  <2> QED
    BY <2>1, FS_SUBSET, FS_Subset
<1>2. ASSUME NEW G \in groups
      PROVE  /\ views[row[G]] = seen[G] /\ carts[row[G]] = carted[G]
             /\ purchases[row[G]] = bought[G] /\ revenue[row[G]] = money[G]
  <2>1. row[G] \in rows /\ row[G].counts = Counts(G) /\ G \in SUBSET S
    BY DEF Rows
  <2> HIDE DEF rows
  <2> QED
    BY <2>1 DEF Counts
<1>3. /\ Additive(seen, S) /\ Additive(carted, S) /\ Additive(bought, S)
      /\ Additive(money, S)
  BY CountsAdd
<1> HIDE DEF seen, carted, bought, money, views, carts, purchases, revenue
<1>c. /\ Column(views, row, groups, seen) /\ Column(carts, row, groups, carted)
      /\ Column(purchases, row, groups, bought) /\ Column(revenue, row, groups, money)
  BY <1>2 DEF Column
<1>4. /\ SumFunctionOnSet(views, rows) = seen[S]
      /\ SumFunctionOnSet(carts, rows) = carted[S]
      /\ SumFunctionOnSet(purchases, rows) = bought[S]
      /\ SumFunctionOnSet(revenue, rows) = money[S]
  <2>0. UNION groups = S
    OBVIOUS
  <2>1. SumFunctionOnSet(views, rows) = seen[S]
    <3>1. Additive(seen, S) /\ Column(views, row, groups, seen)
      BY <1>3, <1>c
    <3> QED
      BY <1>1, <2>0, <3>1, SumOfParts
  <2>2. SumFunctionOnSet(carts, rows) = carted[S]
    <3>1. Additive(carted, S) /\ Column(carts, row, groups, carted)
      BY <1>3, <1>c
    <3> QED
      BY <1>1, <2>0, <3>1, SumOfParts
  <2>3. SumFunctionOnSet(purchases, rows) = bought[S]
    <3>1. Additive(bought, S) /\ Column(purchases, row, groups, bought)
      BY <1>3, <1>c
    <3> QED
      BY <1>1, <2>0, <3>1, SumOfParts
  <2>4. SumFunctionOnSet(revenue, rows) = money[S]
    <3>1. Additive(money, S) /\ Column(revenue, row, groups, money)
      BY <1>3, <1>c
    <3> QED
      BY <1>1, <2>0, <3>1, SumOfParts
  <2> QED
    BY <2>1, <2>2, <2>3, <2>4
<1>5. /\ SumFunction(views) = seen[S] /\ SumFunction(carts) = carted[S]
      /\ SumFunction(purchases) = bought[S] /\ SumFunction(revenue) = money[S]
  <2>1. DOMAIN views = rows /\ DOMAIN carts = rows /\ DOMAIN purchases = rows /\ DOMAIN revenue = rows
    BY DEF views, carts, purchases, revenue
  <2> HIDE DEF rows
  <2> QED
    BY <1>4, <2>1 DEF SumFunction
<1>6. Total(rows) = [views |-> SumFunction(views), carts |-> SumFunction(carts),
                     purchases |-> SumFunction(purchases), revenue |-> SumFunction(revenue)]
  BY DEF Total, views, carts, purchases, revenue
<1>7. Counts(S) = [views |-> seen[S], carts |-> carted[S],
                   purchases |-> bought[S], revenue |-> money[S]]
  <2>1. S \in SUBSET S
    OBVIOUS
  <2> QED
    BY <2>1 DEF Counts, seen, carted, bought, money
<1> QED
  BY <1>5, <1>6, <1>7

-----------------------------------------------------------------------------
(* The totals of the marts. *)

LEMMA GroupFacts ==
  ASSUME NEW S, NEW key
  PROVE  /\ Apart(Groups(S, key)) /\ UNION Groups(S, key) = S /\ Groups(S, key) \in SUBSET SUBSET S
         /\ \A G \in Groups(S, key) : /\ G # {} /\ (CHOOSE e \in G : TRUE) \in G
                                      /\ G = {e \in S : key[e] = Shared(key, G)}
                                      /\ \A e \in G : key[e] = Shared(key, G)
<1>1. ASSUME NEW G \in Groups(S, key)
      PROVE  /\ G # {} /\ (CHOOSE e \in G : TRUE) \in G
             /\ G = {e \in S : key[e] = Shared(key, G)}
  <2>1. PICK x \in S : G = {e \in S : key[e] = key[x]}
    BY DEF Groups
  <2>2. x \in G
    BY <2>1
  <2>3. (CHOOSE e \in G : TRUE) \in G
    BY <2>2
  <2>4. Shared(key, G) = key[x]
    BY <2>1, <2>3 DEF Shared
  <2> QED
    BY <2>1, <2>2, <2>3, <2>4
<1>2. Apart(Groups(S, key))
  BY DEF Apart, Groups
<1>3. UNION Groups(S, key) = S
  <2>1. ASSUME NEW x \in S PROVE x \in UNION Groups(S, key)
    <3>1. x \in {e \in S : key[e] = key[x]} /\ {e \in S : key[e] = key[x]} \in Groups(S, key)
      BY DEF Groups
    <3> QED
      BY <3>1
  <2>2. UNION Groups(S, key) \subseteq S
    BY DEF Groups
  <2> QED
    BY <2>1, <2>2
<1>4. Groups(S, key) \in SUBSET SUBSET S
  BY DEF Groups
<1> QED
  BY <1>1, <1>2, <1>3, <1>4

\* A group is told by the value of its key.
LEMMA GroupByKey ==
  ASSUME NEW S, NEW key, NEW G \in Groups(S, key), NEW H \in Groups(S, key), Shared(key, G) = Shared(key, H)
  PROVE  G = H
<1>1. G = {e \in S : key[e] = Shared(key, G)}
  BY GroupFacts
<1>2. H = {e \in S : key[e] = Shared(key, H)}
  BY GroupFacts
<1> QED
  BY <1>1, <1>2

LEMMA CategoryTotal ==
  ASSUME NEW T \in SUBSET Event
  PROVE  Total(CategoryPerformance(T)) = Counts(T)
<1> DEFINE K == ByCategory(T)
           groups == Groups(T, K)
           row == [G \in groups |-> [date |-> DateOf(G), category |-> Shared(K, G)[2],
                                     buyers |-> Cardinality(Users(OfType(G, "purchase"))), counts |-> Counts(G)]]
<1>1. Dated(T, K)
  BY DEF Dated, ByCategory
<1>2. ASSUME NEW G \in groups PROVE Shared(K, G) = <<DateOf(G), Shared(K, G)[2]>>
  <2>1. (CHOOSE e \in G : TRUE) \in G /\ G \subseteq T /\ \A e \in G : Date(e) = DateOf(G)
    BY <1>1, GroupHasDate
  <2> QED
    BY <2>1 DEF Shared, ByCategory
<1>3. CategoryPerformance(T) = Rows(row, groups)
  BY DEF CategoryPerformance, Rows
<1>4. ASSUME NEW G \in groups
      PROVE  row[G].date = DateOf(G) /\ row[G].category = Shared(K, G)[2] /\ row[G].counts = Counts(G)
  OBVIOUS
<1> HIDE DEF K, groups, row
<1>5. OneEach(row, groups)
  <2>1. ASSUME NEW G \in groups, NEW H \in groups, row[G] = row[H] PROVE G = H
    <3>1. Shared(K, G) = Shared(K, H)
      BY <1>2, <1>4, <2>1
    <3>2. G \in Groups(T, K) /\ H \in Groups(T, K)
      BY DEF groups
    <3> QED
      BY <3>1, <3>2, GroupByKey
  <2> QED
    BY <2>1 DEF OneEach
<1>6. groups \in SUBSET SUBSET T /\ Apart(groups) /\ UNION groups = T
  BY GroupFacts DEF groups
<1> QED
  BY <1>3, <1>4, <1>5, <1>6, TotalOfParts

LEMMA ProductTotal ==
  ASSUME NEW T \in SUBSET Event
  PROVE  Total(ProductAgg(T)) = Counts(T)
<1> DEFINE K == ByProduct(T)
           groups == Groups(T, K)
           row == [G \in groups |-> [date |-> DateOf(G), product |-> Shared(K, G)[2], users |-> Cardinality(Users(G)),
                                     counts |-> Counts(G)]]
<1>1. Dated(T, K)
  BY DEF Dated, ByProduct
<1>2. ASSUME NEW G \in groups PROVE Shared(K, G) = <<DateOf(G), Shared(K, G)[2]>>
  <2>1. (CHOOSE e \in G : TRUE) \in G /\ G \subseteq T /\ \A e \in G : Date(e) = DateOf(G)
    BY <1>1, GroupHasDate
  <2> QED
    BY <2>1 DEF Shared, ByProduct
<1>3. ProductAgg(T) = Rows(row, groups)
  BY DEF ProductAgg, Rows
<1>4. ASSUME NEW G \in groups
      PROVE  row[G].date = DateOf(G) /\ row[G].product = Shared(K, G)[2] /\ row[G].counts = Counts(G)
  OBVIOUS
<1> HIDE DEF K, groups, row
<1>5. OneEach(row, groups)
  <2>1. ASSUME NEW G \in groups, NEW H \in groups, row[G] = row[H] PROVE G = H
    <3>1. Shared(K, G) = Shared(K, H)
      BY <1>2, <1>4, <2>1
    <3>2. G \in Groups(T, K) /\ H \in Groups(T, K)
      BY DEF groups
    <3> QED
      BY <3>1, <3>2, GroupByKey
  <2> QED
    BY <2>1 DEF OneEach
<1>6. groups \in SUBSET SUBSET T /\ Apart(groups) /\ UNION groups = T
  BY GroupFacts DEF groups
<1> QED
  BY <1>3, <1>4, <1>5, <1>6, TotalOfParts

\* The row of a session: its group is told by date, user and session id.
SessionRow(S, sid, G) ==
  [date |-> DateOf(G), user |-> Shared(BySession(S, sid), G)[2], session |-> Shared(BySession(S, sid), G)[3],
   start |-> Earliest(G), end |-> Latest(G), events |-> Cardinality(G),
   products |-> Cardinality({e.product : e \in G} \ {None}), label |-> PathLabel(G),
   converted |-> OfType(G, "purchase") # {}, counts |-> Counts(G)]
SessionGroups(S, sid) == Groups(S, BySession(S, sid))

LEMMA SessionRows ==
  ASSUME NEW T, NEW sid
  PROVE  /\ SessionFunnel(T, sid) = {SessionRow(T, sid, G) : G \in SessionGroups(T, sid)}
         /\ \A G \in SessionGroups(T, sid) :
              /\ Shared(BySession(T, sid), G) =
                   <<DateOf(G), SessionRow(T, sid, G).user, SessionRow(T, sid, G).session>>
              /\ G = {e \in T : /\ Date(e) = DateOf(G) /\ e.user = SessionRow(T, sid, G).user
                                /\ sid[e] = SessionRow(T, sid, G).session}
<1> DEFINE K == BySession(T, sid)
<1>1. Dated(T, K)
  BY DEF Dated, BySession
<1>2. ASSUME NEW G \in Groups(T, K)
      PROVE  Shared(K, G) = <<DateOf(G), SessionRow(T, sid, G).user, SessionRow(T, sid, G).session>>
  <2>1. (CHOOSE e \in G : TRUE) \in G /\ G \subseteq T /\ \A e \in G : Date(e) = DateOf(G)
    BY <1>1, GroupHasDate
  <2>2. SessionRow(T, sid, G).user = Shared(K, G)[2] /\ SessionRow(T, sid, G).session = Shared(K, G)[3]
    BY DEF SessionRow
  <2> QED
    BY <2>1, <2>2 DEF Shared, BySession
<1>3. ASSUME NEW G \in Groups(T, K)
      PROVE  G = {e \in T : /\ Date(e) = DateOf(G) /\ e.user = SessionRow(T, sid, G).user
                            /\ sid[e] = SessionRow(T, sid, G).session}
  <2>1. G = {e \in T : K[e] = Shared(K, G)}
    BY GroupFacts
  <2>2. \A e \in T : K[e] = <<Date(e), e.user, sid[e]>>
    BY DEF BySession
  <2>3. ASSUME NEW e \in T
        PROVE  e \in G <=> /\ Date(e) = DateOf(G) /\ e.user = SessionRow(T, sid, G).user
                           /\ sid[e] = SessionRow(T, sid, G).session
    <3> DEFINE d == DateOf(G)
               u == SessionRow(T, sid, G).user
               s == SessionRow(T, sid, G).session
    <3>1. e \in G <=> <<Date(e), e.user, sid[e]>> = Shared(K, G)
      BY <2>1, <2>2
    <3>2. Shared(K, G) = <<d, u, s>>
      BY <1>2
    <3> HIDE DEF d, u, s, K
    <3>3. e \in G <=> <<Date(e), e.user, sid[e]>> = <<d, u, s>>
      BY <3>1, <3>2
    <3>4. e \in G <=> /\ Date(e) = d /\ e.user = u /\ sid[e] = s
      BY <3>3
    <3> QED
      BY <3>4 DEF d, u, s
  <2> QED
    BY <2>1, <2>3
<1>4. SessionFunnel(T, sid) = {SessionRow(T, sid, G) : G \in Groups(T, K)}
  BY DEF SessionFunnel, SessionRow
<1> QED
  BY <1>2, <1>3, <1>4 DEF SessionGroups

LEMMA SessionTotal ==
  ASSUME NEW T \in SUBSET Event, NEW sid
  PROVE  Total(SessionFunnel(T, sid)) = Counts(T)
<1> DEFINE groups == SessionGroups(T, sid)
           row == [G \in groups |-> SessionRow(T, sid, G)]
<1>1. SessionFunnel(T, sid) = Rows(row, groups)
  BY SessionRows DEF Rows
<1>2. \A G \in groups : row[G].counts = Counts(G) /\ row[G].date = DateOf(G)
  BY DEF SessionRow
<1>3. OneEach(row, groups)
  <2>1. ASSUME NEW G \in groups, NEW H \in groups, row[G] = row[H] PROVE G = H
    <3>1. SessionRow(T, sid, G) = SessionRow(T, sid, H) /\ DateOf(G) = DateOf(H)
      BY <1>2, <2>1
    <3>2. Shared(BySession(T, sid), G) = Shared(BySession(T, sid), H)
      BY <3>1, SessionRows
    <3>3. G \in Groups(T, BySession(T, sid)) /\ H \in Groups(T, BySession(T, sid))
      BY DEF SessionGroups
    <3> QED
      BY <3>2, <3>3, GroupByKey
  <2> HIDE DEF row
  <2> QED
    BY <2>1 DEF OneEach
<1>4. groups \in SUBSET SUBSET T /\ Apart(groups) /\ UNION groups = T
  BY GroupFacts DEF SessionGroups
<1> HIDE DEF groups, row
<1> QED
  BY <1>1, <1>2, <1>3, <1>4, TotalOfParts

-----------------------------------------------------------------------------
(* The marts of a date add up. *)

\* All rows of T are of one date.
LEMMA OneDate ==
  ASSUME NEW T \in SUBSET Event, NEW d, Dates(T) = {d}, NEW G \in SUBSET T, G # {}
  PROVE  DateOf(G) = d /\ \A e \in G : Date(e) = d
<1>1. Dates(G) = {d} /\ \A e \in G : Date(e) = d
  BY DEF Dates
<1> QED
  BY <1>1 DEF DateOf

LEMMA FunnelOfDate ==
  ASSUME NEW T \in SUBSET Event, NEW d, Dates(T) = {d}
  PROVE  {r.stages : r \in ConversionFunnelDaily(T)} = {Stages(T)}
<1>1. T # {} /\ \A e \in T : ByDate(T)[e] = d
  BY DEF Dates, ByDate
<1>2. Groups(T, ByDate(T)) = {T}
  BY <1>1 DEF Groups
<1>3. ConversionFunnelDaily(T) = {[date |-> DateOf(T), stages |-> Stages(T)]}
  BY <1>2 DEF ConversionFunnelDaily
<1> QED
  BY <1>3

LEMMA RevenueOfDate ==
  ASSUME NEW T \in SUBSET Event, NEW d, Dates(T) = {d}
  PROVE  {<<r.purchases, r.revenue>> : r \in DailyRevenue(T)} =
           {<<p, Revenue(T)>> : p \in {Cardinality(OfType(T, "purchase"))} \ {0}}
<1> DEFINE P == OfType(T, "purchase")
<1>1. P \subseteq T /\ IsFiniteSet(P) /\ \A e \in P : ByDate(T)[e] = d
  BY SilverAssumption, FS_Subset DEF OfType, Dates, ByDate
<1>2. CASE P = {}
  <2>1. DailyRevenue(T) = {}
    BY <1>2 DEF DailyRevenue, Groups
  <2>2. Cardinality(P) = 0
    BY <1>2, FS_EmptySet
  <2> QED
    BY <2>1, <2>2
<1>3. CASE P # {}
  <2>1. Groups(P, ByDate(T)) = {P}
    <3> HIDE DEF P
    <3> QED
      BY <1>1, <1>3 DEF Groups
  <2>2. DailyRevenue(T) = {[date |-> DateOf(P), purchases |-> Cardinality(P), revenue |-> Revenue(P),
                            buyers |-> Cardinality(Users(P))]}
    BY <2>1 DEF DailyRevenue
  <2>3. Revenue(P) = Revenue(T)
    <3>1. OfType(P, "purchase") = P
      BY DEF OfType
    <3> QED
      BY <3>1 DEF Revenue
  <2>4. Cardinality(P) # 0
    BY <1>1, <1>3, FS_EmptySet
  <2>5. {Cardinality(P)} \ {0} = {Cardinality(P)}
    BY <2>4
  <2> HIDE DEF P
  <2>6. {<<r.purchases, r.revenue>> : r \in DailyRevenue(T)} = {<<Cardinality(P), Revenue(T)>>}
    BY <2>2, <2>3
  <2> QED
    BY <2>5, <2>6 DEF P
<1> QED
  BY <1>2, <1>3

\* The counts of a product are numbers, and its id is one or NULL.
Ranked(p) == /\ p.counts.revenue \in Int /\ p.counts.purchases \in Int /\ p.counts.views \in Int
             /\ p.product \in {None} \cup Int

LEMMA ProductRows ==
  ASSUME NEW T \in SUBSET Event
  PROVE  IsFiniteSet(ProductAgg(T)) /\ \A p \in ProductAgg(T) : Ranked(p) /\ p.date \in Dates(T)
<1> DEFINE K == ByProduct(T)
           groups == Groups(T, K)
           row(G) == [date |-> DateOf(G), product |-> Shared(K, G)[2], users |-> Cardinality(Users(G)),
                      counts |-> Counts(G)]
<1>1. ProductAgg(T) = {row(G) : G \in groups}
  BY DEF ProductAgg
<1>2. groups \in SUBSET SUBSET T /\ IsFiniteSet(groups)
  <2>1. groups \in SUBSET SUBSET T
    BY GroupFacts
  <2>2. IsFiniteSet(T)
    BY SilverAssumption, FS_Subset
  <2> HIDE DEF groups
  <2> QED
    BY <2>1, <2>2, FS_SUBSET, FS_Subset
<1>3. Dated(T, K)
  BY DEF Dated, ByProduct
<1>4. ASSUME NEW G \in groups PROVE Ranked(row(G)) /\ row(G).date \in Dates(T)
  <2>1. (CHOOSE e \in G : TRUE) \in G /\ DateOf(G) \in Dates(T) /\ G \in SUBSET Event
    BY <1>2, <1>3, GroupHasDate
  <2>2. Shared(K, G)[2] \in {None} \cup Int
    BY <1>2, <2>1, SilverAssumption DEF Shared, ByProduct
  <2>3. {} \in SUBSET Event /\ G \cap {} = {}
    OBVIOUS
  <2>4. \A t : IsFiniteSet(OfType(G, t))
    BY <2>1, <2>3, TypesDisjoint
  <2>5. \A t : Cardinality(OfType(G, t)) \in Int
    BY <2>4, FS_CardinalityType
  <2>6. Revenue(G) \in Int
    <3>1. \A e \in G : [x \in G |-> Price(x)][e] = Price(e)
      OBVIOUS
    <3> QED
      BY <2>1, <3>1, RevenueIsSum
  <2>7. Counts(G).revenue \in Int /\ Counts(G).purchases \in Int /\ Counts(G).views \in Int
    BY <2>5, <2>6 DEF Counts
  <2> QED
    BY <2>1, <2>2, <2>7 DEF Ranked
<1>5. IsFiniteSet({row(G) : G \in groups})
  <2> DEFINE f == [G \in groups |-> row(G)]
  <2>1. f \in Surjection(groups, {row(G) : G \in groups})
    BY DEF Surjection
  <2> HIDE DEF groups, row, f
  <2> QED
    BY <1>2, <2>1, FS_Surjection
<1> HIDE DEF groups, row
<1> QED
  BY <1>1, <1>4, <1>5

LEMMA OutranksOrder ==
  ASSUME NEW p, NEW q, NEW r, Ranked(p), Ranked(q), Ranked(r)
  PROVE  ~Outranks(p, p) /\ (Outranks(p, q) /\ Outranks(q, r) => Outranks(p, r))
<1>1. ~Outranks(p, p)
  BY DEF Outranks, Ranked
<1>2. ASSUME Outranks(p, q), Outranks(q, r) PROVE Outranks(p, r)
  BY <1>2 DEF Outranks, Ranked
<1> QED
  BY <1>1, <1>2

\* Ranks are cut off only when as many rows are kept: the products that outrank
\* the first one cut off are all kept.
LEMMA NoneCutOff ==
  ASSUME NEW T \in SUBSET Event, NEW d, Dates(T) = {d},
         Cardinality({r.row : r \in TopProductsDaily(T)}) < TopProducts
  PROVE  {r.row : r \in TopProductsDaily(T)} = ProductAgg(T)
<1> DEFINE A == ProductAgg(T)
           kept == {q \in A : ProductRank(A, q) <= TopProducts}
           above(p) == {q \in A : q.date = p.date /\ Outranks(q, p)}
           Over == {above(p) : p \in A \ kept}
<1>1. {r.row : r \in TopProductsDaily(T)} = kept
  <2>1. TopProductsDaily(T) = {[date |-> p.date, rank |-> ProductRank(A, p), row |-> p] : p \in kept}
    BY DEF TopProductsDaily
  <2> HIDE DEF kept, A
  <2>2. ASSUME NEW p \in kept PROVE \E r \in TopProductsDaily(T) : r.row = p
    <3> DEFINE r == [date |-> p.date, rank |-> ProductRank(A, p), row |-> p]
    <3>1. r \in TopProductsDaily(T) /\ r.row = p
      BY <2>1
    <3> QED
      BY <3>1
  <2>3. \A r \in TopProductsDaily(T) : r.row \in kept
    BY <2>1
  <2> QED
    BY <2>2, <2>3
<1>2. IsFiniteSet(A) /\ \A p \in A : Ranked(p) /\ p.date = d
  BY ProductRows
<1>3. \A p : ProductRank(A, p) = 1 + Cardinality(above(p))
  BY DEF ProductRank
<1> SUFFICES ASSUME A \ kept # {} PROVE FALSE
  BY <1>1
<1> HIDE DEF A
<1>4. IsWellFoundedOn(StrictSubsetOrdering(A), SUBSET A)
  BY <1>2, FS_StrictSubsetOrderingWellFounded, FS_FiniteSubsetsOfFinite
<1>5. PICK p \in A \ kept : \A q \in A \ kept : <<above(q), above(p)>> \notin StrictSubsetOrdering(A)
  <2>1. Over \subseteq SUBSET A /\ Over # {}
    OBVIOUS
  <2>2. \E U \in Over : \A V \in Over : <<V, U>> \notin StrictSubsetOrdering(A)
    <3> HIDE DEF Over
    <3> QED
      BY <1>4, <2>1, WFMin
  <2> QED
    BY <2>2
<1>6. above(p) \subseteq kept
  <2>1. SUFFICES ASSUME NEW q \in above(p), q \notin kept PROVE FALSE
    BY DEF kept
  <2>2. q \in A \ kept /\ Outranks(q, p)
    BY <2>1
  <2>3. above(q) \subseteq above(p)
    <3>1. SUFFICES ASSUME NEW r \in above(q) PROVE r \in above(p)
      OBVIOUS
    <3>2. r \in A /\ Outranks(r, q) /\ Ranked(r) /\ Ranked(q) /\ Ranked(p) /\ r.date = p.date
      BY <1>2, <2>2
    <3> QED
      BY <2>2, <3>2, OutranksOrder
  <2>4. q \in above(p) /\ q \notin above(q)
    <3>1. Ranked(q)
      BY <1>2, <2>2
    <3> QED
      BY <3>1, OutranksOrder
  <2>5. <<above(q), above(p)>> \in StrictSubsetOrdering(A)
    <3>1. above(q) \in SUBSET A /\ above(p) \in SUBSET A
      OBVIOUS
    <3> HIDE DEF above
    <3> QED
      BY <2>3, <2>4, <3>1 DEF StrictSubsetOrdering
  <2> QED
    BY <1>5, <2>2, <2>5
<1>7. IsFiniteSet(kept) /\ Cardinality(above(p)) <= Cardinality(kept)
  BY <1>2, <1>6, FS_Subset
<1>8. Cardinality(above(p)) \in Nat /\ Cardinality(kept) \in Nat
  BY <1>6, <1>7, FS_Subset, FS_CardinalityType
<1>9. ~(1 + Cardinality(above(p)) <= TopProducts)
  BY <1>3, <1>5
<1>10. Cardinality(kept) < TopProducts /\ TopProducts \in Nat
  BY <1>1, MartAssumption
<1> QED
  BY <1>7, <1>8, <1>9, <1>10

-----------------------------------------------------------------------------
(* A user's row of a date and the rows of the user's sessions. *)

UserRow(S, sid, G) ==
  [date |-> DateOf(G), user |-> Shared(ByUser(S), G)[2], sessions |-> Cardinality({sid[e] : e \in G}),
   first |-> Earliest(G), last |-> Latest(G), label |-> PathLabel(G),
   converted |-> OfType(G, "purchase") # {}, counts |-> Counts(G)]
UserGroups(S) == Groups(S, ByUser(S))

LEMMA UserRows ==
  ASSUME NEW S, NEW sid
  PROVE  /\ UserConversionPath(S, sid) = {UserRow(S, sid, G) : G \in UserGroups(S)}
         /\ \A G \in UserGroups(S) :
              G = {e \in S : Date(e) = DateOf(G) /\ e.user = UserRow(S, sid, G).user}
<1> DEFINE K == ByUser(S)
<1>1. Dated(S, K)
  BY DEF Dated, ByUser
<1>2. ASSUME NEW G \in Groups(S, K)
      PROVE  Shared(K, G) = <<DateOf(G), UserRow(S, sid, G).user>>
  <2>1. (CHOOSE e \in G : TRUE) \in G /\ G \subseteq S /\ \A e \in G : Date(e) = DateOf(G)
    BY <1>1, GroupHasDate
  <2>2. UserRow(S, sid, G).user = Shared(K, G)[2]
    BY DEF UserRow
  <2> QED
    BY <2>1, <2>2 DEF Shared, ByUser
<1>3. ASSUME NEW G \in Groups(S, K)
      PROVE  G = {e \in S : Date(e) = DateOf(G) /\ e.user = UserRow(S, sid, G).user}
  <2>1. G = {e \in S : K[e] = Shared(K, G)}
    BY GroupFacts
  <2>2. \A e \in S : K[e] = <<Date(e), e.user>>
    BY DEF ByUser
  <2>3. ASSUME NEW e \in S
        PROVE  e \in G <=> (Date(e) = DateOf(G) /\ e.user = UserRow(S, sid, G).user)
    <3> DEFINE d == DateOf(G)
               u == UserRow(S, sid, G).user
    <3>1. e \in G <=> <<Date(e), e.user>> = Shared(K, G)
      BY <2>1, <2>2
    <3>2. Shared(K, G) = <<d, u>>
      BY <1>2
    <3> HIDE DEF d, u, K
    <3>3. e \in G <=> <<Date(e), e.user>> = <<d, u>>
      BY <3>1, <3>2
    <3>4. e \in G <=> (Date(e) = d /\ e.user = u)
      BY <3>3
    <3> QED
      BY <3>4 DEF d, u
  <2> QED
    BY <2>1, <2>3
<1>4. UserConversionPath(S, sid) = {UserRow(S, sid, G) : G \in Groups(S, K)}
  BY DEF UserConversionPath, UserRow
<1> QED
  BY <1>3, <1>4 DEF UserGroups

LEMMA UserTotal ==
  ASSUME NEW T \in SUBSET Event, NEW sid
  PROVE  Total(UserConversionPath(T, sid)) = Counts(T)
<1> DEFINE groups == UserGroups(T)
           row == [G \in groups |-> UserRow(T, sid, G)]
<1>1. UserConversionPath(T, sid) = Rows(row, groups)
  BY UserRows DEF Rows
<1>2. \A G \in groups : row[G].counts = Counts(G) /\ row[G].date = DateOf(G) /\ row[G] = UserRow(T, sid, G)
  BY DEF UserRow
<1>3. OneEach(row, groups)
  <2>0. \A G \in groups : G = {e \in T : Date(e) = DateOf(G) /\ e.user = UserRow(T, sid, G).user}
    BY UserRows
  <2>1. ASSUME NEW G \in groups, NEW H \in groups, row[G] = row[H] PROVE G = H
    <3>1. UserRow(T, sid, G) = UserRow(T, sid, H) /\ DateOf(G) = DateOf(H)
      BY <1>2, <2>1
    <3> HIDE DEF groups, row
    <3>2. G = {e \in T : Date(e) = DateOf(G) /\ e.user = UserRow(T, sid, G).user}
      BY <2>0
    <3>3. H = {e \in T : Date(e) = DateOf(H) /\ e.user = UserRow(T, sid, H).user}
      BY <2>0
    <3> QED
      BY <3>1, <3>2, <3>3
  <2> HIDE DEF row
  <2> QED
    BY <2>1 DEF OneEach
<1>4. groups \in SUBSET SUBSET T /\ Apart(groups) /\ UNION groups = T
  BY GroupFacts DEF UserGroups
<1> HIDE DEF groups, row
<1> QED
  BY <1>1, <1>2, <1>3, <1>4, TotalOfParts

\* The sessions a user had on a date, as groups of rows and as rows of the mart.
SessionsIn(S, sid, G) == {H \in SessionGroups(S, sid) : H \subseteq G}
OwnRows(S, sid, u) == {s \in SessionFunnel(S, sid) : s.date = u.date /\ s.user = u.user}

LEMMA OwnSessions ==
  ASSUME NEW S \in SUBSET Event, NEW sid, NEW G \in UserGroups(S)
  PROVE  /\ OwnRows(S, sid, UserRow(S, sid, G)) = {SessionRow(S, sid, H) : H \in SessionsIn(S, sid, G)}
         /\ UNION SessionsIn(S, sid, G) = G
         /\ \A H \in SessionsIn(S, sid, G) :
              /\ H # {} /\ \A e \in H : sid[e] = SessionRow(S, sid, H).session
              /\ H = {e \in G : sid[e] = SessionRow(S, sid, H).session}
<1> DEFINE u == UserRow(S, sid, G)
           d == DateOf(G)
           In == SessionsIn(S, sid, G)
           row(H) == SessionRow(S, sid, H)
<1>1. G = {e \in S : Date(e) = d /\ e.user = u.user} /\ u.date = d
  <2>1. u.date = d
    BY DEF UserRow
  <2>2. G = {e \in S : Date(e) = d /\ e.user = u.user}
    BY UserRows
  <2> QED
    BY <2>1, <2>2
<1>2. ASSUME NEW H \in SessionGroups(S, sid)
      PROVE  /\ H = {e \in S : Date(e) = DateOf(H) /\ e.user = row(H).user /\ sid[e] = row(H).session}
             /\ row(H).date = DateOf(H) /\ H # {}
  <2>1. row(H).date = DateOf(H)
    BY DEF SessionRow
  <2>2. H # {}
    BY GroupFacts DEF SessionGroups
  <2>3. H = {e \in S : Date(e) = DateOf(H) /\ e.user = row(H).user /\ sid[e] = row(H).session}
    BY SessionRows
  <2> QED
    BY <2>1, <2>2, <2>3
<1>3. SessionFunnel(S, sid) = {row(H) : H \in SessionGroups(S, sid)}
  BY SessionRows
<1>4. UNION SessionGroups(S, sid) = S
  BY GroupFacts DEF SessionGroups
<1> HIDE DEF u, d, row
<1>5. ASSUME NEW H \in SessionGroups(S, sid)
      PROVE  H \subseteq G <=> (row(H).date = u.date /\ row(H).user = u.user)
  <2>1. PICK e \in H : TRUE
    BY <1>2
  <2>2. e \in S /\ Date(e) = row(H).date /\ e.user = row(H).user
    BY <1>2
  <2>3. H \subseteq G => (row(H).date = u.date /\ row(H).user = u.user)
    BY <1>1, <2>2
  <2>4. (row(H).date = u.date /\ row(H).user = u.user) => H \subseteq G
    BY <1>1, <1>2
  <2> QED
    BY <2>3, <2>4
<1>6. OwnRows(S, sid, u) = {row(H) : H \in In}
  BY <1>3, <1>5 DEF OwnRows, SessionsIn
<1>7. UNION In = G
  <2>1. ASSUME NEW e \in G PROVE \E H \in In : e \in H
    <3>1. PICK H \in SessionGroups(S, sid) : e \in H
      BY <1>1, <1>4
    <3>2. row(H).date = u.date /\ row(H).user = u.user
      BY <1>1, <1>2, <3>1
    <3> QED
      BY <1>5, <3>1, <3>2 DEF SessionsIn
  <2> QED
    BY <2>1 DEF SessionsIn
<1>8. ASSUME NEW H \in In
      PROVE  /\ H # {} /\ \A e \in H : sid[e] = row(H).session
             /\ H = {e \in G : sid[e] = row(H).session}
  <2>1. H \in SessionGroups(S, sid) /\ H \subseteq G
    BY DEF SessionsIn
  <2>2. H = {e \in S : Date(e) = DateOf(H) /\ e.user = row(H).user /\ sid[e] = row(H).session} /\ H # {}
    BY <1>2, <2>1
  <2>3. DateOf(H) = d /\ row(H).user = u.user
    BY <1>1, <1>2, <1>5, <2>1
  <2> QED
    BY <1>1, <2>1, <2>2, <2>3
<1> QED
  BY <1>6, <1>7, <1>8 DEF u, row

\* A user has as many session ids on a date as rows in the session mart.
LEMMA SessionsListed ==
  ASSUME NEW S \in SUBSET Event, NEW sid, NEW G \in UserGroups(S)
  PROVE  UserRow(S, sid, G).sessions = Cardinality(OwnRows(S, sid, UserRow(S, sid, G)))
<1> DEFINE In == SessionsIn(S, sid, G)
           row == [H \in In |-> SessionRow(S, sid, H)]
           id == [H \in In |-> SessionRow(S, sid, H).session]
<1>1. IsFiniteSet(In)
  <2>1. IsFiniteSet(S)
    BY SilverAssumption, FS_Subset
  <2>2. In \in SUBSET SUBSET S
    <3>1. SessionGroups(S, sid) \in SUBSET SUBSET S
      BY GroupFacts DEF SessionGroups
    <3> QED
      BY <3>1 DEF SessionsIn
  <2> HIDE DEF In
  <2> QED
    BY <2>1, <2>2, FS_SUBSET, FS_Subset
<1>2. \A H \in In : id[H] = row[H].session
  OBVIOUS
<1>3. /\ OwnRows(S, sid, UserRow(S, sid, G)) = {row[H] : H \in In}
      /\ UNION In = G
      /\ \A H \in In : H # {} /\ (\A e \in H : sid[e] = id[H]) /\ H = {e \in G : sid[e] = id[H]}
  BY OwnSessions
<1>4. UserRow(S, sid, G).sessions = Cardinality({sid[e] : e \in G})
  BY DEF UserRow
<1> HIDE DEF In, row, id
<1>5. \A H, I \in In : id[H] = id[I] => H = I
  <2>1. ASSUME NEW H \in In, NEW I \in In, id[H] = id[I] PROVE H = I
    <3>1. H = {e \in G : sid[e] = id[H]}
      BY <1>3
    <3>2. I = {e \in G : sid[e] = id[I]}
      BY <1>3
    <3> QED
      BY <2>1, <3>1, <3>2
  <2> QED
    BY <2>1
<1>6. \A H, I \in In : row[H] = row[I] => H = I
  BY <1>2, <1>5
<1>7. {sid[e] : e \in G} = {id[H] : H \in In}
  BY <1>3
<1>8. Cardinality({row[H] : H \in In}) = Cardinality(In)
  BY <1>1, <1>6, OneForOne
<1>9. Cardinality({id[H] : H \in In}) = Cardinality(In)
  BY <1>1, <1>5, OneForOne
<1> QED
  BY <1>3, <1>4, <1>7, <1>8, <1>9

-----------------------------------------------------------------------------
(* Counts. *)

\* The rows of a date in a mart are the mart of the rows of the date.
LEMMA MartOfDate ==
  ASSUME NEW S, NEW d, NEW m \in Names
  PROVE  Of(DailyMarts(S)[m], d) = DailyMarts(OnDates(S, {d}))[m]
<1>1. DailyMarts(OnDates(S, {d}))[m] = OnlyOf(DailyMarts(S)[m], {d})
  BY DailyMartsLocal
<1> QED
  BY <1>1 DEF Of, OnlyOf

LEMMA CountsAgree ==
  ASSUME RowsOK, RefreshIsRebuild
  PROVE  CountsReconcile
<1> SUFFICES ASSUME NEW d \in Dates(silver)
             PROVE  LET total == Total(Of(daily.category_performance, d))
                        ranked == {r.row : r \in Of(daily.top_products, d)}
                    IN /\ Total(Of(daily.session_funnel, d)) = total
                       /\ Total(Of(daily.user_conversion_path, d)) = total
                       /\ Cardinality(ranked) < TopProducts => Total(ranked) = total
                       /\ {r.stages : r \in Of(daily.conversion_funnel_daily, d)} =
                            {[views |-> total.views, carts |-> total.carts, purchases |-> total.purchases]}
                       /\ {<<r.purchases, r.revenue>> : r \in Of(daily.daily_revenue, d)} =
                            {<<p, total.revenue>> : p \in {total.purchases} \ {0}}
                       /\ \A u \in Of(daily.user_conversion_path, d) :
                            u.sessions = Cardinality({s \in Of(daily.session_funnel, d) : s.user = u.user})
  BY DEF CountsReconcile
<1> DEFINE T == OnDates(silver, {d})
           sid == Sessionized(T)
<1>1. T \in SUBSET Event /\ Dates(T) = {d}
  BY DEF RowsOK, OnDates, Dates
<1>2. \A m \in Names : Of(daily[m], d) = DailyMarts(T)[m]
  BY MartOfDate DEF RefreshIsRebuild
<1>3. /\ Of(daily.category_performance, d) = CategoryPerformance(T)
      /\ Of(daily.session_funnel, d) = SessionFunnel(T, sid)
      /\ Of(daily.user_conversion_path, d) = UserConversionPath(T, sid)
      /\ Of(daily.top_products, d) = TopProductsDaily(T)
      /\ Of(daily.conversion_funnel_daily, d) = ConversionFunnelDaily(T)
      /\ Of(daily.daily_revenue, d) = DailyRevenue(T)
  <2> HIDE DEF T
  <2> QED
    BY <1>2 DEF Names, DailyMarts
<1> HIDE DEF T, sid
<1>4. /\ Total(CategoryPerformance(T)) = Counts(T) /\ Total(SessionFunnel(T, sid)) = Counts(T)
      /\ Total(UserConversionPath(T, sid)) = Counts(T)
  BY <1>1, CategoryTotal, SessionTotal, UserTotal
<1>5. Cardinality({r.row : r \in TopProductsDaily(T)}) < TopProducts
        => Total({r.row : r \in TopProductsDaily(T)}) = Counts(T)
  BY <1>1, NoneCutOff, ProductTotal
<1>6. {r.stages : r \in ConversionFunnelDaily(T)} =
        {[views |-> Counts(T).views, carts |-> Counts(T).carts, purchases |-> Counts(T).purchases]}
  <2>1. Stages(T) = [views |-> Counts(T).views, carts |-> Counts(T).carts, purchases |-> Counts(T).purchases]
    BY DEF Stages, Counts
  <2> QED
    BY <1>1, <2>1, FunnelOfDate
<1>7. {<<r.purchases, r.revenue>> : r \in DailyRevenue(T)} =
        {<<p, Counts(T).revenue>> : p \in {Counts(T).purchases} \ {0}}
  <2>1. Counts(T).revenue = Revenue(T) /\ Counts(T).purchases = Cardinality(OfType(T, "purchase"))
    BY DEF Counts
  <2> QED
    BY <1>1, <2>1, RevenueOfDate
<1>8. ASSUME NEW u \in UserConversionPath(T, sid)
      PROVE  u.sessions = Cardinality({s \in SessionFunnel(T, sid) : s.user = u.user})
  <2>1. PICK G \in UserGroups(T) : u = UserRow(T, sid, G)
    BY UserRows
  <2>2. u.sessions = Cardinality(OwnRows(T, sid, u))
    BY <1>1, <2>1, SessionsListed
  <2>3. \A r \in SessionFunnel(T, sid) \cup UserConversionPath(T, sid) : r.date = d
    <3>1. \A r \in Of(daily.session_funnel, d) \cup Of(daily.user_conversion_path, d) : r.date = d
      BY DEF Of
    <3> QED
      BY <1>3, <3>1
  <2>4. OwnRows(T, sid, u) = {s \in SessionFunnel(T, sid) : s.user = u.user}
    BY <2>3 DEF OwnRows
  <2> QED
    BY <2>2, <2>4
<1> QED
  BY <1>3, <1>4, <1>5, <1>6, <1>7, <1>8

-----------------------------------------------------------------------------
(* Paths. *)

LEMMA MinIs ==
  ASSUME NEW A \in SUBSET Int, NEW x \in A, \A y \in A : x <= y
  PROVE  Min(A) = x
<1> DEFINE m == CHOOSE z \in A : \A y \in A : z <= y
<1>1. m \in A /\ \A y \in A : m <= y
  OBVIOUS
<1>2. Min(A) = m
  BY DEF Min
<1> HIDE DEF m
<1>3. m <= x /\ x <= m /\ m \in Int /\ x \in Int
  BY <1>1
<1> QED
  BY <1>2, <1>3

LEMMA MaxIs ==
  ASSUME NEW A \in SUBSET Int, NEW x \in A, \A y \in A : x >= y
  PROVE  Max(A) = x
<1> DEFINE m == CHOOSE z \in A : \A y \in A : z >= y
<1>1. m \in A /\ \A y \in A : m >= y
  OBVIOUS
<1>2. Max(A) = m
  BY DEF Max
<1> HIDE DEF m
<1>3. m >= x /\ x >= m /\ m \in Int /\ x \in Int
  BY <1>1
<1> QED
  BY <1>2, <1>3

LEMMA TimesOfGroup ==
  ASSUME NEW G \in SUBSET Event, G # {}
  PROVE  /\ Earliest(G) \in Int /\ (\E e \in G : e.time = Earliest(G)) /\ \A e \in G : Earliest(G) <= e.time
         /\ Latest(G) \in Int /\ (\E e \in G : e.time = Latest(G)) /\ \A e \in G : Latest(G) >= e.time
<1>1. \A e \in G : e.time \in Int
  BY SilverAssumption
<1>2. PICK e, f : IsFirst(G, e) /\ IsLast(G, f)
  BY FirstAndLast
<1>3. e \in G /\ f \in G /\ \A g \in G : e.time <= g.time /\ g.time <= f.time
  <2>1. e \in G /\ f \in G /\ \A g \in G : (g = e \/ Before(e, g)) /\ (g = f \/ Before(g, f))
    BY <1>2 DEF IsFirst, IsLast
  <2> QED
    BY <1>1, <2>1 DEF Before
<1> DEFINE A == {g.time : g \in G}
<1>a. /\ A \in SUBSET Int /\ e.time \in A /\ f.time \in A
      /\ \A t \in A : e.time <= t /\ f.time >= t
  BY <1>1, <1>3
<1> HIDE DEF A
<1>4. Min(A) = e.time
  BY <1>a, MinIs
<1>5. Max(A) = f.time
  BY <1>a, MaxIs
<1> QED
  BY <1>1, <1>3, <1>4, <1>5 DEF Earliest, Latest, A

Stage == {"cart", "purchase", "view"}
Name == [cart |-> 1, purchase |-> 2, view |-> 3]
TouchedAt(G, t) == Earliest(OfType(G, t))

LEMMA SoonerOrder ==
  ASSUME NEW G \in SUBSET Event
  PROVE  /\ Reached(G) \subseteq Stage /\ IsFiniteSet(Reached(G))
         /\ \A s, t : Sooner(G, s, t) <=>
              (TouchedAt(G, s) < TouchedAt(G, t) \/ (TouchedAt(G, s) = TouchedAt(G, t) /\ Name[s] < Name[t]))
         /\ \A t \in Reached(G) : TouchedAt(G, t) \in Int /\ ~Sooner(G, t, t)
         /\ \A s, t \in Reached(G) : s # t => Sooner(G, s, t) \/ Sooner(G, t, s)
         /\ \A r, s, t \in Reached(G) : Sooner(G, r, s) /\ Sooner(G, s, t) => Sooner(G, r, t)
<1>1. Reached(G) \subseteq Stage
  BY DEF Reached, Stage
<1>2. IsFiniteSet(Reached(G))
  <2>1. Stage = (({} \cup {"cart"}) \cup {"purchase"}) \cup {"view"}
    BY DEF Stage
  <2>2. IsFiniteSet({}) /\ IsFiniteSet({} \cup {"cart"}) /\ IsFiniteSet(({} \cup {"cart"}) \cup {"purchase"})
        /\ IsFiniteSet((({} \cup {"cart"}) \cup {"purchase"}) \cup {"view"})
    BY FS_EmptySet, FS_AddElement
  <2> QED
    BY <1>1, <2>1, <2>2, FS_Subset
<1>3. \A s, t : Sooner(G, s, t) <=>
        (TouchedAt(G, s) < TouchedAt(G, t) \/ (TouchedAt(G, s) = TouchedAt(G, t) /\ Name[s] < Name[t]))
  BY DEF Sooner, TouchedAt, Name
<1>4. \A t \in Reached(G) : TouchedAt(G, t) \in Int
  <2>1. ASSUME NEW t \in Reached(G) PROVE TouchedAt(G, t) \in Int
    <3>1. OfType(G, t) \in SUBSET Event /\ OfType(G, t) # {}
      BY DEF Reached, OfType
    <3> QED
      BY <3>1, TimesOfGroup DEF TouchedAt
  <2> QED
    BY <2>1
<1>5. \A t \in Stage : Name[t] \in Int
  BY DEF Stage, Name
<1>6. \A s, t \in Stage : Name[s] = Name[t] => s = t
  BY DEF Stage, Name
<1>7. \A s, t \in Reached(G) : s # t => Sooner(G, s, t) \/ Sooner(G, t, s)
  BY <1>1, <1>3, <1>4, <1>5, <1>6
<1>8. \A t \in Reached(G) : ~Sooner(G, t, t)
  BY <1>1, <1>3, <1>4, <1>5
<1>9. \A r, s, t \in Reached(G) : Sooner(G, r, s) /\ Sooner(G, s, t) => Sooner(G, r, t)
  BY <1>1, <1>3, <1>4, <1>5
<1> QED
  BY <1>1, <1>2, <1>3, <1>4, <1>7, <1>8, <1>9

\* The stages can be put in order, by the number of stages that come before each.
LEMMA PathExists ==
  ASSUME NEW G \in SUBSET Event
  PROVE  \E p \in SetToSeqs(Reached(G)) : \A i, j \in DOMAIN p : i < j => Sooner(G, p[i], p[j])
<1> DEFINE R == Reached(G)
           n == Cardinality(R)
           less == {st \in R \X R : Sooner(G, st[1], st[2])}
<1>1. IsFiniteSet(R) /\ n \in Nat
  BY SoonerOrder, FS_CardinalityType
<1>2. \A s, t \in R : <<s, t>> \in less <=> Sooner(G, s, t)
  OBVIOUS
<1>3. /\ \A t \in R : ~Sooner(G, t, t)
      /\ \A s, t \in R : s # t => Sooner(G, s, t) \/ Sooner(G, t, s)
      /\ \A r, s, t \in R : Sooner(G, r, s) /\ Sooner(G, s, t) => Sooner(G, r, t)
  BY SoonerOrder
<1> HIDE DEF R, less
<1>4. Ordered(R, less)
  BY <1>2, <1>3 DEF Ordered
<1>5. PICK p \in [1 .. n -> R] : \A i, j \in 1 .. n : i < j => p[i] # p[j] /\ <<p[i], p[j]>> \in less
  BY <1>1, <1>4, SortedEnumeration
<1>6. \A i, j \in 1 .. n : i # j => p[i] # p[j]
  <2>1. \A i, j \in 1 .. n : i # j => i < j \/ j < i
    BY <1>1
  <2> QED
    BY <1>5, <2>1
<1>7. p \in SetToSeqs(R) /\ DOMAIN p = 1 .. n
  BY <1>6 DEF SetToSeqs
<1>8. \A i, j \in DOMAIN p : i < j => Sooner(G, p[i], p[j])
  BY <1>2, <1>5, <1>7
<1> QED
  BY <1>7, <1>8 DEF R

\* A path has every stage that was reached, and begins with the one reached first.
LEMMA PathFacts ==
  ASSUME NEW G \in SUBSET Event, G # {}
  PROVE  /\ ToSet(PathLabel(G)) = Reached(G)
         /\ PathLabel(G)[1] \in Reached(G)
         /\ \A t \in Reached(G) : t # PathLabel(G)[1] => Sooner(G, PathLabel(G)[1], t)
<1> DEFINE R == Reached(G)
           n == Cardinality(R)
           p == PathLabel(G)
<1>1. p \in SetToSeqs(R) /\ \A i, j \in DOMAIN p : i < j => Sooner(G, p[i], p[j])
  <2> DEFINE Sorted(q) == \A i, j \in DOMAIN q : i < j => Sooner(G, q[i], q[j])
  <2>1. \E q \in SetToSeqs(R) : Sorted(q)
    BY PathExists
  <2>2. p = CHOOSE q \in SetToSeqs(R) : Sorted(q)
    BY DEF PathLabel
  <2>3. p \in SetToSeqs(R) /\ Sorted(p)
    <3> HIDE DEF Sorted, p, R
    <3> QED
      BY <2>1, <2>2
  <2> QED
    BY <2>3
<1>2. IsFiniteSet(R) /\ n \in Nat /\ IsFiniteSet(1 .. n) /\ Cardinality(1 .. n) = n
  <2>1. IsFiniteSet(R) /\ n \in Nat
    BY SoonerOrder, FS_CardinalityType
  <2> HIDE DEF n, R
  <2> QED
    BY <2>1, FS_Interval
<1>3. n # 0
  <2>1. PICK e \in G : TRUE
    OBVIOUS
  <2>2. e.type \in R
    BY SilverAssumption DEF Reached, OfType
  <2> HIDE DEF R
  <2> QED
    BY <1>2, <2>2, FS_EmptySet
<1> HIDE DEF R, p
<1>4. p \in [1 .. n -> R] /\ DOMAIN p = 1 .. n /\ \A i, j \in 1 .. n : i # j => p[i] # p[j]
  BY <1>1 DEF SetToSeqs
<1>5. p \in Injection(1 .. n, R)
  BY <1>4 DEF Injection, IsInjective
<1>6. p \in Surjection(1 .. n, R)
  BY <1>2, <1>5, FS_Injection
<1>7. \A t \in R : \E i \in 1 .. n : p[i] = t
  BY <1>6 DEF Surjection
<1>8. ToSet(p) = R
  BY <1>4, <1>7 DEF ToSet
<1>9. 1 \in 1 .. n /\ p[1] \in R
  BY <1>2, <1>3, <1>4
<1>10. ASSUME NEW t \in R, t # p[1] PROVE Sooner(G, p[1], t)
  <2>1. PICK i \in 1 .. n : p[i] = t
    BY <1>7
  <2>2. 1 < i /\ i \in DOMAIN p /\ 1 \in DOMAIN p
    BY <1>2, <1>4, <1>9, <1>10, <2>1
  <2> QED
    BY <1>1, <2>1, <2>2
<1> QED
  BY <1>8, <1>9, <1>10 DEF R, p

\* The session in which a user's first stage was reached began with the first
\* row of the day, and its path begins with that stage.
LEMMA FirstTouch ==
  ASSUME NEW G \in SUBSET Event, G # {}, NEW In, UNION In = G, \A H \in In : H # {}
  PROVE  \E H \in In : Earliest(H) = Earliest(G) /\ PathLabel(H)[1] = PathLabel(G)[1]
<1> DEFINE t == PathLabel(G)[1]
<1>1. t \in Reached(G) /\ (\A s \in Reached(G) : s # t => Sooner(G, t, s))
  BY PathFacts
<1>2. /\ Earliest(G) \in Int /\ (\E e \in G : e.time = Earliest(G)) /\ \A e \in G : Earliest(G) <= e.time
  BY TimesOfGroup
<1>3. ASSUME NEW F \in SUBSET G, NEW s \in Reached(F)
      PROVE  /\ s \in Reached(G) /\ TouchedAt(F, s) \in Int /\ TouchedAt(G, s) \in Int
             /\ Earliest(G) <= TouchedAt(G, s) /\ TouchedAt(G, s) <= TouchedAt(F, s)
             /\ \A e \in F : e.type = s => TouchedAt(F, s) <= e.time
             /\ \E e \in F : e.type = s /\ e.time = TouchedAt(F, s)
  <2>1. /\ OfType(F, s) \in SUBSET Event /\ OfType(F, s) # {}
        /\ OfType(G, s) \in SUBSET Event /\ OfType(G, s) # {} /\ s \in Reached(G)
    BY DEF Reached, OfType
  <2>2. /\ TouchedAt(F, s) \in Int /\ (\E e \in OfType(F, s) : e.time = TouchedAt(F, s))
        /\ (\A e \in OfType(F, s) : TouchedAt(F, s) <= e.time)
    BY <2>1, TimesOfGroup DEF TouchedAt
  <2>3. /\ TouchedAt(G, s) \in Int /\ (\E e \in OfType(G, s) : e.time = TouchedAt(G, s))
        /\ (\A e \in OfType(G, s) : TouchedAt(G, s) <= e.time)
    BY <2>1, TimesOfGroup DEF TouchedAt
  <2>4. OfType(F, s) \subseteq OfType(G, s) /\ OfType(G, s) \subseteq G
    BY DEF OfType
  <2>5. Earliest(G) <= TouchedAt(G, s) /\ TouchedAt(G, s) <= TouchedAt(F, s)
    BY <1>2, <2>2, <2>3, <2>4
  <2>6. \A e : e \in OfType(F, s) <=> e \in F /\ e.type = s
    BY DEF OfType
  <2> QED
    BY <2>1, <2>2, <2>3, <2>5, <2>6
<1> HIDE DEF t
<1>4. TouchedAt(G, t) = Earliest(G)
  <2>1. PICK e \in G : e.time = Earliest(G)
    BY <1>2
  <2>2. e.type \in Reached(G)
    BY SilverAssumption DEF Reached, OfType
  <2>3. /\ TouchedAt(G, e.type) = Earliest(G) /\ TouchedAt(G, e.type) \in Int
        /\ TouchedAt(G, t) \in Int /\ Earliest(G) <= TouchedAt(G, t)
    <3>1. TouchedAt(G, e.type) <= e.time /\ Earliest(G) <= TouchedAt(G, e.type) /\ TouchedAt(G, e.type) \in Int
      BY <1>3, <2>2
    <3> QED
      BY <1>1, <1>2, <1>3, <2>1, <3>1
  <2>4. TouchedAt(G, t) <= TouchedAt(G, e.type)
    <3>1. e.type = t \/ Sooner(G, t, e.type)
      BY <1>1, <2>2
    <3> QED
      BY <2>3, <3>1, SoonerOrder
  <2> QED
    BY <1>2, <2>3, <2>4
<1>5. PICK f \in G : f.type = t /\ f.time = Earliest(G)
  BY <1>1, <1>3, <1>4
<1>6. PICK H \in In : f \in H
  BY <1>5
<1>7. H \in SUBSET G /\ H \in SUBSET Event /\ H # {} /\ t \in Reached(H)
  BY <1>5, <1>6, <1>1 DEF Reached, OfType
<1>8. Earliest(H) = Earliest(G)
  <2>1. /\ Earliest(H) \in Int /\ (\E e \in H : e.time = Earliest(H)) /\ \A e \in H : Earliest(H) <= e.time
    BY <1>7, TimesOfGroup
  <2> QED
    BY <1>2, <1>5, <1>6, <1>7, <2>1
<1>9. PathLabel(H)[1] = t
  <2> DEFINE s == PathLabel(H)[1]
  <2>1. s \in Reached(H) /\ (t # s => Sooner(H, s, t))
    BY <1>7, PathFacts
  <2> HIDE DEF s
  <2>2. TouchedAt(H, t) = Earliest(G)
    BY <1>2, <1>3, <1>5, <1>6, <1>7
  <2>3. /\ s \in Reached(G) /\ TouchedAt(H, s) \in Int /\ TouchedAt(G, s) \in Int
        /\ Earliest(G) <= TouchedAt(G, s) /\ TouchedAt(G, s) <= TouchedAt(H, s)
    BY <1>3, <1>7, <2>1
  <2>4. SUFFICES ASSUME s # t PROVE FALSE
    BY DEF s
  <2>5. TouchedAt(H, s) < TouchedAt(H, t) \/ (TouchedAt(H, s) = TouchedAt(H, t) /\ Name[s] < Name[t])
    BY <1>7, <2>1, <2>4, SoonerOrder
  <2>6. TouchedAt(G, t) < TouchedAt(G, s) \/ (TouchedAt(G, t) = TouchedAt(G, s) /\ Name[t] < Name[s])
    BY <1>1, <2>3, <2>4, SoonerOrder
  <2>7. Name[s] \in Int /\ Name[t] \in Int
    <3>1. s \in Stage /\ t \in Stage
      BY <1>1, <2>3, SoonerOrder
    <3> QED
      BY <3>1 DEF Stage, Name
  <2> QED
    BY <1>2, <1>4, <2>2, <2>3, <2>5, <2>6, <2>7
<1> QED
  BY <1>8, <1>9 DEF t

\* A user's path against those of the sessions, whatever the rows are.
Merged(own, u) ==
  LET first == {s \in own : \A t \in own : s.start <= t.start}
  IN /\ u.sessions = 1 => \A s \in own : s.label = u.label
     /\ ToSet(u.label) = UNION {ToSet(s.label) : s \in own}
     /\ u.converted = \E s \in own : s.converted
     /\ u.label # <<>> => \E s \in first : u.label[1] = s.label[1]
     /\ u.first = Min({s.start : s \in own}) /\ u.last = Max({s.end : s \in own})

LEMMA PathsOfUser ==
  ASSUME NEW S \in SUBSET Event, NEW sid, NEW u \in UserConversionPath(S, sid)
  PROVE  Merged(OwnRows(S, sid, u), u)
<1>1. PICK G \in UserGroups(S) : u = UserRow(S, sid, G)
  BY UserRows
<1> DEFINE In == SessionsIn(S, sid, G)
           row == [H \in In |-> SessionRow(S, sid, H)]
           own == OwnRows(S, sid, u)
           first == {s \in own : \A t \in own : s.start <= t.start}
<1>2. G \in SUBSET Event /\ G # {}
  <2>1. G # {} /\ G \in SUBSET S
    BY GroupFacts DEF UserGroups
  <2> QED
    BY <2>1
<1>3. /\ own = {row[H] : H \in In} /\ UNION In = G
      /\ \A H \in In : /\ H # {} /\ \A e \in H : sid[e] = row[H].session
                       /\ H = {e \in G : sid[e] = row[H].session}
  BY <1>1, OwnSessions
<1>4. \A H \in In : /\ row[H].start = Earliest(H) /\ row[H].end = Latest(H) /\ row[H].label = PathLabel(H)
                    /\ row[H].converted = (OfType(H, "purchase") # {})
  BY DEF SessionRow
<1>5. /\ u.label = PathLabel(G) /\ u.converted = (OfType(G, "purchase") # {})
      /\ u.first = Earliest(G) /\ u.last = Latest(G) /\ u.sessions = Cardinality({sid[e] : e \in G})
  BY <1>1 DEF UserRow
<1> HIDE DEF In, row, own
<1>6. \A H \in In : H \in SUBSET G /\ H \in SUBSET Event /\ H # {}
  BY <1>2, <1>3
<1>7. \A H \in In : /\ Earliest(H) \in Int /\ Earliest(G) <= Earliest(H)
                    /\ Latest(H) \in Int /\ Latest(G) >= Latest(H)
  <2>1. ASSUME NEW H \in In
        PROVE  /\ Earliest(H) \in Int /\ Earliest(G) <= Earliest(H)
               /\ Latest(H) \in Int /\ Latest(G) >= Latest(H)
    <3>1. H \in SUBSET Event /\ H # {} /\ H \in SUBSET G
      BY <1>6
    <3>2. /\ Earliest(H) \in Int /\ (\E e \in H : e.time = Earliest(H))
          /\ Latest(H) \in Int /\ (\E e \in H : e.time = Latest(H))
      BY <3>1, TimesOfGroup
    <3>3. \A e \in G : Earliest(G) <= e.time /\ Latest(G) >= e.time
      BY <1>2, TimesOfGroup
    <3> QED
      BY <3>1, <3>2, <3>3
  <2> QED
    BY <2>1
<1>8. u.sessions = 1 => \A s \in own : s.label = u.label
  <2>1. ASSUME u.sessions = 1, NEW H \in In PROVE H = G
    <3>1. IsFiniteSet(G)
      BY <1>2, SilverAssumption, FS_Subset
    <3> DEFINE f == [e \in G |-> sid[e]]
               ids == {sid[e] : e \in G}
    <3>2. f \in Surjection(G, ids)
      BY DEF Surjection
    <3>3. IsFiniteSet(ids)
      <4> HIDE DEF f, ids
      <4> QED
        BY <3>1, <3>2, FS_Surjection
    <3>4. Cardinality(ids) = 1
      BY <1>5, <2>1
    <3>5. PICK i : ids = {i}
      <4> HIDE DEF ids
      <4> QED
        BY <3>3, <3>4, FS_Singleton
    <3>6. \A e \in G : sid[e] = i
      BY <3>5
    <3>7. row[H].session = i
      BY <1>3, <1>6, <3>6
    <3> QED
      BY <1>3, <3>6, <3>7
  <2> QED
    BY <1>3, <1>4, <1>5, <2>1
<1>9. ToSet(u.label) = UNION {ToSet(s.label) : s \in own}
  <2>1. \A H \in In : ToSet(row[H].label) = Reached(H)
    BY <1>4, <1>6, PathFacts
  <2>2. ToSet(u.label) = Reached(G)
    BY <1>2, <1>5, PathFacts
  <2>3. \A t : t \in Reached(G) <=> \E H \in In : t \in Reached(H)
    BY <1>3, <1>6 DEF Reached, OfType
  <2> QED
    BY <1>3, <2>1, <2>2, <2>3
<1>10. u.converted = \E s \in own : s.converted
  <2>1. (OfType(G, "purchase") # {}) <=> \E H \in In : OfType(H, "purchase") # {}
    BY <1>3, <1>6 DEF OfType
  <2>2. (\E s \in own : s.converted) <=> \E H \in In : OfType(H, "purchase") # {}
    <3>1. own = {row[H] : H \in In}
      BY <1>3
    <3>2. (\E s \in own : s.converted) <=> \E H \in In : row[H].converted
      BY <3>1, Zenon
    <3>3. ASSUME NEW H \in In PROVE row[H].converted = (OfType(H, "purchase") # {})
      BY <1>4
    <3> QED
      BY <3>2, <3>3, Zenon
  <2>3. (OfType(G, "purchase") # {}) = \E s \in own : s.converted
    BY <2>1, <2>2
  <2> QED
    BY <1>5, <2>3
<1>11. PICK H \in In : Earliest(H) = Earliest(G) /\ PathLabel(H)[1] = PathLabel(G)[1]
  <2>1. UNION In = G /\ \A H \in In : H # {}
    BY <1>3
  <2> QED
    BY <1>2, <2>1, FirstTouch
<1>12. \E s \in first : u.label[1] = s.label[1]
  <2>1. row[H] \in own /\ row[H].label[1] = u.label[1]
    BY <1>3, <1>4, <1>5, <1>11
  <2>2. \A t \in own : row[H].start <= t.start
    BY <1>3, <1>4, <1>7, <1>11
  <2> QED
    BY <2>1, <2>2
<1>13. u.first = Min({s.start : s \in own})
  <2> DEFINE A == {s.start : s \in own}
  <2>1. A \in SUBSET Int /\ Earliest(G) \in A /\ \A y \in A : Earliest(G) <= y
    BY <1>3, <1>4, <1>7, <1>11
  <2> HIDE DEF A
  <2>2. Min(A) = Earliest(G)
    BY <2>1, MinIs
  <2> QED
    BY <1>5, <2>2 DEF A
<1>14. u.last = Max({s.end : s \in own})
  <2> DEFINE A == {s.end : s \in own}
  <2>1. PICK e \in G : e.time = Latest(G)
    BY <1>2, TimesOfGroup
  <2>2. PICK I \in In : e \in I
    BY <1>3
  <2>3. Latest(I) = Latest(G)
    <3>1. Latest(I) >= e.time
      BY <1>6, <2>2, TimesOfGroup
    <3>2. Latest(G) \in Int
      BY <1>2, TimesOfGroup
    <3> QED
      BY <1>7, <2>1, <3>1, <3>2
  <2>4. A \in SUBSET Int /\ Latest(G) \in A /\ \A y \in A : Latest(G) >= y
    BY <1>3, <1>4, <1>7, <2>3
  <2> HIDE DEF A
  <2>5. Max(A) = Latest(G)
    BY <2>4, MaxIs
  <2> QED
    BY <1>5, <2>5 DEF A
<1> QED
  BY <1>8, <1>9, <1>10, <1>12, <1>13, <1>14 DEF own, Merged

LEMMA PathsFollow ==
  ASSUME RowsOK, RefreshIsRebuild
  PROVE  PathsAgree
<1>1. /\ daily.user_conversion_path = UserConversionPath(silver, Sessionized(silver))
      /\ daily.session_funnel = SessionFunnel(silver, Sessionized(silver))
  BY DEF RefreshIsRebuild, DailyMarts
<1>2. ASSUME NEW u \in daily.user_conversion_path
      PROVE  Merged({s \in daily.session_funnel : s.date = u.date /\ s.user = u.user}, u)
  <2>1. {s \in daily.session_funnel : s.date = u.date /\ s.user = u.user} = OwnRows(silver, Sessionized(silver), u)
    BY <1>1 DEF OwnRows
  <2>2. silver \in SUBSET Event /\ u \in UserConversionPath(silver, Sessionized(silver))
    BY <1>1 DEF RowsOK
  <2> QED
    BY <2>1, <2>2, PathsOfUser
<1> QED
  BY <1>2 DEF PathsAgree, Merged

\* However Silver grew, the published marts tell one story: the rows of a date add
\* up to the same counts at every granularity, and a user's path is the merger of
\* the paths of the user's sessions.
THEOREM MartsReconcileAlways == Spec => []MartsReconcile
<1>1. RowsOK /\ RefreshIsRebuild => MartsReconcile
  BY CountsAgree, PathsFollow DEF MartsReconcile
<1> QED
  BY <1>1, SilverIsRows, RefreshIsRebuildAlways, PTL

-----------------------------------------------------------------------------
(* Months that are over. *)

LEMMA DatesHaveMonths ==
  \A e \in Event : Date(e) \in DOMAIN MonthOf /\ Date(e) \in Int /\ MonthOf[Date(e)] \in Int
<1>1. \A e \in Event : Date(e) \in Dates(Event)
  BY DEF Dates
<1> QED
  BY <1>1, CalendarAssumption

\* A finite set of numbers has a least and a greatest one.
LEMMA Extremes ==
  ASSUME NEW A \in SUBSET Int, IsFiniteSet(A), A # {}
  PROVE  /\ Min(A) \in A /\ \A y \in A : Min(A) <= y
         /\ Max(A) \in A /\ \A y \in A : Max(A) >= y
<1> DEFINE P == {U \in SUBSET A : U # {} => (\E x \in U : \A y \in U : x <= y) /\ (\E x \in U : \A y \in U : x >= y)}
<1>1. {} \in P
  OBVIOUS
<1>2. ASSUME NEW U \in SUBSET A, NEW z \in A \ U, U \in P PROVE U \cup {z} \in P
  <2>1. CASE U = {}
    BY <2>1
  <2>2. CASE U # {}
    <3>1. PICK lo \in U : \A y \in U : lo <= y
      BY <1>2, <2>2
    <3>2. PICK hi \in U : \A y \in U : hi >= y
      BY <1>2, <2>2
    <3>3. \A y \in U : lo <= y /\ hi >= y /\ y \in Int
      BY <3>1, <3>2
    <3>4. lo \in Int /\ hi \in Int /\ z \in Int
      OBVIOUS
    <3>5. \E x \in U \cup {z} : \A y \in U \cup {z} : x <= y
      <4>1. CASE lo <= z
        BY <3>3, <4>1
      <4>2. CASE z <= lo
        BY <3>3, <3>4, <4>2
      <4> QED
        BY <3>4, <4>1, <4>2
    <3>6. \E x \in U \cup {z} : \A y \in U \cup {z} : x >= y
      <4>1. CASE hi >= z
        BY <3>3, <4>1
      <4>2. CASE z >= hi
        BY <3>3, <3>4, <4>2
      <4> QED
        BY <3>4, <4>1, <4>2
    <3> QED
      BY <3>5, <3>6
  <2> QED
    BY <2>1, <2>2
<1> HIDE DEF P
<1>3. A \in P
  BY <1>1, <1>2, FiniteSetInduction
<1>4. PICK lo \in A : \A y \in A : lo <= y
  BY <1>3 DEF P
<1>5. PICK hi \in A : \A y \in A : hi >= y
  BY <1>3 DEF P
<1>6. Min(A) = lo /\ Max(A) = hi
  BY <1>4, <1>5, MinIs, MaxIs
<1> QED
  BY <1>4, <1>5, <1>6

LEMMA DatesOfGroup ==
  ASSUME NEW G \in SUBSET Event, G # {}
  PROVE  /\ Dates(G) \in SUBSET Int /\ IsFiniteSet(Dates(G)) /\ Dates(G) # {}
         /\ Min(Dates(G)) \in Dates(G) /\ \A d \in Dates(G) : Min(Dates(G)) <= d
         /\ Max(Dates(G)) \in Dates(G) /\ \A d \in Dates(G) : Max(Dates(G)) >= d
<1> DEFINE v == [e \in G |-> Date(e)]
<1>1. IsFiniteSet(G)
  BY SilverAssumption, FS_Subset
<1>2. IsFiniteSet({v[e] : e \in G})
  BY <1>1, ImageFinite
<1>3. Dates(G) \in SUBSET Int /\ IsFiniteSet(Dates(G)) /\ Dates(G) # {}
  BY <1>2, DatesHaveMonths DEF Dates
<1> QED
  BY <1>3, Extremes

\* m is not after the months of b.
NotAfter(m, b) == m \in Int /\ \A e \in b : m <= MonthOf[Date(e)]
OfUser(S, u) == {e \in Purchases(S) : e.user = u}
Cohort(S, u) == CohortMonth(Purchases(S), u)

LEMMA CohortFacts ==
  ASSUME NEW S \in SUBSET Event, NEW u \in Users(Purchases(S))
  PROVE  /\ OfUser(S, u) \in SUBSET Event /\ OfUser(S, u) # {} /\ Cohort(S, u) \in Int
         /\ \E e \in OfUser(S, u) : /\ Cohort(S, u) = MonthOf[Date(e)]
                                    /\ FirstPurchaseDate(Purchases(S), u) = Date(e)
                                    /\ \A f \in OfUser(S, u) : Date(e) <= Date(f)
<1> DEFINE G == OfUser(S, u)
<1>1. G \in SUBSET Event /\ G # {}
  BY DEF OfUser, Users, Purchases, OfType
<1>2. Min(Dates(G)) \in Dates(G) /\ \A d \in Dates(G) : Min(Dates(G)) <= d
  BY <1>1, DatesOfGroup
<1>3. FirstPurchaseDate(Purchases(S), u) = Min(Dates(G)) /\ Cohort(S, u) = MonthOf[Min(Dates(G))]
  BY DEF Cohort, CohortMonth, FirstPurchaseDate, OfUser
<1>4. PICK e \in G : Min(Dates(G)) = Date(e)
  BY <1>2 DEF Dates
<1>5. \A f \in G : Date(e) <= Date(f)
  BY <1>2, <1>4 DEF Dates
<1> QED
  BY <1>1, <1>3, <1>4, <1>5, DatesHaveMonths

\* Rows of month m on leave the cohorts before m as they are, and nobody joins one of them.
LEMMA CohortsStay ==
  ASSUME NEW S \in SUBSET Event, NEW b \in SUBSET Event, NEW m, NotAfter(m, b)
  PROVE  /\ \A u \in Users(Purchases(S)) : u \in Users(Purchases(S \cup b))
         /\ \A u \in Users(Purchases(S)) : Cohort(S, u) < m => Cohort(S \cup b, u) = Cohort(S, u)
         /\ \A u \in Users(Purchases(S \cup b)) :
              Cohort(S \cup b, u) < m => u \in Users(Purchases(S)) /\ Cohort(S, u) = Cohort(S \cup b, u)
<1> DEFINE T == S \cup b
<1>1. T \in SUBSET Event /\ Purchases(T) = Purchases(S) \cup Purchases(b) /\ m \in Int
  BY DEF Purchases, OfType, NotAfter
<1>2. \A u : OfUser(T, u) = OfUser(S, u) \cup OfUser(b, u) /\ OfUser(b, u) \subseteq b /\ OfUser(S, u) \subseteq S
  BY <1>1 DEF OfUser, Purchases, OfType
<1>3. Users(Purchases(S)) \subseteq Users(Purchases(T))
  BY <1>1 DEF Users
<1>4. ASSUME NEW u \in Users(Purchases(T)), Cohort(T, u) < m
      PROVE  u \in Users(Purchases(S)) /\ Cohort(S, u) = Cohort(T, u)
  <2>1. PICK g \in OfUser(T, u) : /\ Cohort(T, u) = MonthOf[Date(g)]
                                  /\ \A f \in OfUser(T, u) : Date(g) <= Date(f)
    BY <1>1, CohortFacts
  <2>2. g \in Event /\ MonthOf[Date(g)] \in Int /\ Date(g) \in Int
    BY <1>1, <1>2, <2>1, DatesHaveMonths
  <2>3. g \in OfUser(S, u)
    <3>1. g \notin b
      BY <1>1, <1>4, <2>1, <2>2 DEF NotAfter
    <3> QED
      BY <1>2, <2>1, <3>1
  <2>4. u \in Users(Purchases(S))
    BY <1>4, <2>3 DEF OfUser, Users
  <2>5. PICK e \in OfUser(S, u) : /\ Cohort(S, u) = MonthOf[Date(e)]
                                  /\ \A f \in OfUser(S, u) : Date(e) <= Date(f)
    BY <2>4, CohortFacts
  <2>6. e \in OfUser(T, u) /\ e \in Event /\ Date(e) \in Int
    BY <1>2, <2>5, DatesHaveMonths
  <2>7. Date(e) <= Date(g) /\ Date(g) <= Date(e)
    BY <2>1, <2>3, <2>5, <2>6
  <2> QED
    BY <2>1, <2>2, <2>4, <2>5, <2>6, <2>7
<1>5. ASSUME NEW u \in Users(Purchases(S)), Cohort(S, u) < m PROVE Cohort(T, u) = Cohort(S, u)
  <2>1. PICK e \in OfUser(S, u) : Cohort(S, u) = MonthOf[Date(e)]
    BY CohortFacts
  <2>2. PICK g \in OfUser(T, u) : /\ Cohort(T, u) = MonthOf[Date(g)]
                                  /\ \A f \in OfUser(T, u) : Date(g) <= Date(f)
    BY <1>1, <1>3, CohortFacts
  <2>3. e \in OfUser(T, u) /\ e \in Event /\ g \in Event
    BY <1>1, <1>2, <2>1, <2>2
  <2>4. Date(g) <= Date(e) /\ Date(g) \in DOMAIN MonthOf /\ Date(e) \in DOMAIN MonthOf
    BY <2>2, <2>3, DatesHaveMonths
  <2>5. MonthOf[Date(g)] <= MonthOf[Date(e)] /\ MonthOf[Date(g)] \in Int /\ MonthOf[Date(e)] \in Int
    BY <2>4, CalendarAssumption
  <2>6. Cohort(T, u) < m
    BY <1>1, <1>5, <2>1, <2>2, <2>5
  <2> QED
    BY <1>3, <1>4, <2>6
<1> QED
  BY <1>3, <1>4, <1>5

\* In which months after the first one the users bought.
Active(S) == {<<Cohort(S, e.user), MonthOf[Date(e)] - Cohort(S, e.user), e.user>> : e \in Purchases(S)}
Members(S, c) == {u \in Users(Purchases(S)) : Cohort(S, u) = c}
Cell(S, c, k) == {a \in Active(S) : a[1] = c /\ a[2] = k}
CohortRow(S, c, k) ==
  [cohort |-> c, offset |-> k, users |-> Cardinality(Members(S, c)), active |-> Cardinality(Cell(S, c, k))]

LEMMA Buyer == \A S : \A e \in Purchases(S) : e \in S /\ e.user \in Users(Purchases(S)) /\ e \in OfUser(S, e.user)
BY DEF Purchases, OfType, Users, OfUser

LEMMA CohortRows ==
  ASSUME NEW S
  PROVE  CohortRetention(S) = {CohortRow(S, a[1], a[2]) : a \in {x \in Active(S) : x[2] >= 0}}
<1> DEFINE P == Purchases(S)
           month == [u \in Users(P) |-> CohortMonth(P, u)]
           active == {<<month[e.user], MonthOf[Date(e)] - month[e.user], e.user>> : e \in P}
<1>1. \A e \in P : month[e.user] = Cohort(S, e.user)
  BY Buyer DEF Cohort
<1>2. active = Active(S)
  BY <1>1 DEF Active
<1>3. \A c : {u \in Users(P) : month[u] = c} = Members(S, c)
  BY DEF Members, Cohort
<1>4. CohortRetention(S) = {[cohort |-> a[1], offset |-> a[2],
        users |-> Cardinality({u \in Users(P) : month[u] = a[1]}),
        active |-> Cardinality({b \in active : b[1] = a[1] /\ b[2] = a[2]})] : a \in {b \in active : b[2] >= 0}}
  BY DEF CohortRetention
<1>5. \A a : [cohort |-> a[1], offset |-> a[2], users |-> Cardinality({u \in Users(P) : month[u] = a[1]}),
              active |-> Cardinality({b \in active : b[1] = a[1] /\ b[2] = a[2]})] = CohortRow(S, a[1], a[2])
  BY <1>2, <1>3 DEF CohortRow, Cell
<1> HIDE DEF active, month
<1>6. CohortRetention(S) = {CohortRow(S, a[1], a[2]) : a \in {b \in active : b[2] >= 0}}
  BY <1>4, <1>5
<1> QED
  BY <1>2, <1>6

\* The entries of months before m come from rows, and from cohorts, that were there.
Past(a, m) == a[2] >= 0 /\ a[1] + a[2] < m

LEMMA OldActivity ==
  ASSUME NEW S \in SUBSET Event, NEW b \in SUBSET Event, NEW m, NotAfter(m, b)
  PROVE  /\ \A a \in Active(S) : a[1] \in Int /\ a[2] \in Int /\ (Past(a, m) => a \in Active(S \cup b))
         /\ \A a \in Active(S \cup b) : a[1] \in Int /\ a[2] \in Int /\ (Past(a, m) => a \in Active(S))
         /\ \A c : c < m => Members(S \cup b, c) = Members(S, c)
<1> DEFINE T == S \cup b
           entry(R, e) == <<Cohort(R, e.user), MonthOf[Date(e)] - Cohort(R, e.user), e.user>>
<1>1. /\ T \in SUBSET Event /\ Purchases(S) \subseteq Purchases(T) /\ \A e \in Purchases(T) : e \in Purchases(S) \/ e \in b
      /\ Purchases(T) \subseteq Event /\ m \in Int
  BY DEF Purchases, OfType, NotAfter
<1>2. /\ \A u \in Users(Purchases(S)) : u \in Users(Purchases(T))
      /\ \A u \in Users(Purchases(S)) : Cohort(S, u) < m => Cohort(T, u) = Cohort(S, u)
      /\ \A u \in Users(Purchases(T)) : Cohort(T, u) < m => u \in Users(Purchases(S)) /\ Cohort(S, u) = Cohort(T, u)
  BY CohortsStay
<1>3. ASSUME NEW R \in SUBSET Event, NEW e \in Purchases(R)
      PROVE  /\ entry(R, e)[1] = Cohort(R, e.user) /\ Cohort(R, e.user) \in Int
             /\ entry(R, e)[2] \in Int /\ entry(R, e)[1] + entry(R, e)[2] = MonthOf[Date(e)]
             /\ Past(entry(R, e), m) => Cohort(R, e.user) < m /\ MonthOf[Date(e)] < m
  <2>1. Cohort(R, e.user) \in Int /\ MonthOf[Date(e)] \in Int
    BY <1>3, Buyer, CohortFacts, DatesHaveMonths
  <2> QED
    BY <1>1, <2>1 DEF Past
<1>4. ASSUME NEW a \in Active(S)
      PROVE  a[1] \in Int /\ a[2] \in Int /\ (Past(a, m) => a \in Active(T))
  <2>1. PICK e \in Purchases(S) : a = entry(S, e)
    BY DEF Active
  <2>2. a[1] \in Int /\ a[2] \in Int
    BY <1>3, <2>1
  <2>3. Past(a, m) => Cohort(T, e.user) = Cohort(S, e.user)
    BY <1>2, <1>3, <2>1, Buyer
  <2>4. Past(a, m) => a = entry(T, e)
    BY <2>1, <2>3
  <2> QED
    BY <1>1, <2>2, <2>4 DEF Active
<1>5. ASSUME NEW a \in Active(T)
      PROVE  a[1] \in Int /\ a[2] \in Int /\ (Past(a, m) => a \in Active(S))
  <2>1. PICK e \in Purchases(T) : a = entry(T, e)
    BY DEF Active
  <2>2. a[1] \in Int /\ a[2] \in Int
    BY <1>1, <1>3, <2>1
  <2>3. Past(a, m) => Cohort(S, e.user) = Cohort(T, e.user)
    BY <1>1, <1>2, <1>3, <2>1, Buyer
  <2>4. Past(a, m) => e \in Purchases(S)
    <3>1. Past(a, m) => MonthOf[Date(e)] < m
      BY <1>1, <1>3, <2>1
    <3> QED
      BY <1>1, <3>1, DatesHaveMonths DEF NotAfter
  <2>5. Past(a, m) => a = entry(S, e)
    BY <2>1, <2>3
  <2> QED
    BY <2>2, <2>4, <2>5 DEF Active
<1>6. ASSUME NEW c, c < m PROVE Members(T, c) = Members(S, c)
  BY <1>2, <1>6 DEF Members
<1> QED
  BY <1>4, <1>5, <1>6

LEMMA CohortsClosed ==
  ASSUME NEW S \in SUBSET Event, NEW b \in SUBSET Event, NEW m, NotAfter(m, b)
  PROVE  {r \in CohortRetention(S \cup b) : r.cohort + r.offset < m} = {r \in CohortRetention(S) : r.cohort + r.offset < m}
<1> DEFINE T == S \cup b
<1>1. T \in SUBSET Event /\ m \in Int
  BY DEF NotAfter
<1>2. /\ \A a \in Active(S) : a[1] \in Int /\ a[2] \in Int /\ (Past(a, m) => a \in Active(T))
      /\ \A a \in Active(T) : a[1] \in Int /\ a[2] \in Int /\ (Past(a, m) => a \in Active(S))
      /\ \A c : c < m => Members(T, c) = Members(S, c)
  BY OldActivity
<1>3. ASSUME NEW c \in Int, NEW k \in Int, k >= 0, c + k < m PROVE Cell(T, c, k) = Cell(S, c, k)
  <2>1. \A R : \A x \in Cell(R, c, k) : x \in Active(R) /\ x[1] = c /\ x[2] = k
    BY DEF Cell
  <2>2. \A R : \A x \in Cell(R, c, k) : Past(x, m)
    BY <1>3, <2>1 DEF Past
  <2> QED
    BY <1>2, <2>1, <2>2 DEF Cell
<1>4. ASSUME NEW a, a[1] \in Int, a[2] \in Int, Past(a, m) PROVE CohortRow(T, a[1], a[2]) = CohortRow(S, a[1], a[2])
  <2> HIDE DEF T
  <2>1. a[1] < m /\ a[2] >= 0 /\ a[1] + a[2] < m
    BY <1>1, <1>4 DEF Past
  <2>2. Cell(T, a[1], a[2]) = Cell(S, a[1], a[2])
    BY <1>3, <1>4, <2>1
  <2>3. Members(T, a[1]) = Members(S, a[1])
    BY <1>2, <2>1
  <2> QED
    BY <2>2, <2>3 DEF CohortRow
<1>5. \A R, c, k : CohortRow(R, c, k).cohort = c /\ CohortRow(R, c, k).offset = k
  BY DEF CohortRow
<1>6. CohortRetention(T) = {CohortRow(T, a[1], a[2]) : a \in {x \in Active(T) : x[2] >= 0}}
  BY CohortRows
<1>7. CohortRetention(S) = {CohortRow(S, a[1], a[2]) : a \in {x \in Active(S) : x[2] >= 0}}
  BY CohortRows
<1> HIDE DEF T
<1>8. ASSUME NEW r \in CohortRetention(T), r.cohort + r.offset < m PROVE r \in CohortRetention(S)
  <2>1. PICK a \in Active(T) : a[2] >= 0 /\ r = CohortRow(T, a[1], a[2])
    BY <1>6
  <2>2. Past(a, m)
    BY <1>5, <1>8, <2>1 DEF Past
  <2>3. a \in Active(S) /\ CohortRow(T, a[1], a[2]) = CohortRow(S, a[1], a[2])
    BY <1>2, <1>4, <2>1, <2>2
  <2> QED
    BY <1>7, <2>1, <2>3
<1>9. ASSUME NEW r \in CohortRetention(S), r.cohort + r.offset < m PROVE r \in CohortRetention(T)
  <2>1. PICK a \in Active(S) : a[2] >= 0 /\ r = CohortRow(S, a[1], a[2])
    BY <1>7
  <2>2. Past(a, m)
    BY <1>5, <1>9, <2>1 DEF Past
  <2>3. a \in Active(T) /\ CohortRow(T, a[1], a[2]) = CohortRow(S, a[1], a[2])
    BY <1>2, <1>4, <2>1, <2>2
  <2> QED
    BY <1>6, <2>1, <2>3
<1> QED
  BY <1>8, <1>9 DEF T

\* Those who bought in a month, and those who had bought in an earlier one.
Buyers(S, q) == Users({e \in Purchases(S) : MonthOf[Date(e)] = q})
Again(S, q) == {u \in Buyers(S, q) : Cohort(S, u) < q}
RepeatRow(S, q) == [month |-> q, purchasers |-> Cardinality(Buyers(S, q)), repeats |-> Cardinality(Again(S, q))]

LEMMA RepeatRows == \A S : RepeatPurchase(S) = {RepeatRow(S, MonthOf[d]) : d \in Dates(Purchases(S))}
BY DEF RepeatPurchase, RepeatRow, Buyers, Again, Cohort

LEMMA RepeatsClosed ==
  ASSUME NEW S \in SUBSET Event, NEW b \in SUBSET Event, NEW m, NotAfter(m, b)
  PROVE  {r \in RepeatPurchase(S \cup b) : r.month < m} = {r \in RepeatPurchase(S) : r.month < m}
<1> DEFINE T == S \cup b
<1>1. /\ Purchases(S) \subseteq Purchases(T) /\ (\A e \in Purchases(T) : e \in Purchases(S) \/ e \in b)
      /\ Purchases(T) \subseteq Event /\ m \in Int
  BY DEF Purchases, OfType, NotAfter
<1>2. \A e \in Purchases(T) : MonthOf[Date(e)] < m => e \in Purchases(S)
  BY <1>1, DatesHaveMonths DEF NotAfter
<1>3. ASSUME NEW q \in Int, q < m PROVE RepeatRow(T, q) = RepeatRow(S, q)
  <2>1. {e \in Purchases(T) : MonthOf[Date(e)] = q} = {e \in Purchases(S) : MonthOf[Date(e)] = q}
    BY <1>1, <1>2, <1>3
  <2>2. Buyers(T, q) = Buyers(S, q)
    BY <2>1 DEF Buyers
  <2>3. \A u \in Buyers(S, q) : u \in Users(Purchases(S)) /\ u \in Users(Purchases(T))
    BY <1>1 DEF Buyers, Users
  <2>4. /\ \A u \in Users(Purchases(S)) : Cohort(S, u) \in Int /\ (Cohort(S, u) < m => Cohort(T, u) = Cohort(S, u))
        /\ \A u \in Users(Purchases(T)) : Cohort(T, u) \in Int /\ (Cohort(T, u) < m => Cohort(S, u) = Cohort(T, u))
    BY CohortsStay, CohortFacts
  <2>5. \A u \in Buyers(S, q) : Cohort(T, u) < q <=> Cohort(S, u) < q
    BY <1>1, <1>3, <2>3, <2>4
  <2>6. Again(T, q) = Again(S, q)
    BY <2>2, <2>5 DEF Again
  <2> QED
    BY <2>2, <2>6 DEF RepeatRow
<1>4. \A R, q : RepeatRow(R, q).month = q
  BY DEF RepeatRow
<1>5. RepeatPurchase(T) = {RepeatRow(T, MonthOf[Date(e)]) : e \in Purchases(T)}
  BY RepeatRows DEF Dates
<1>6. RepeatPurchase(S) = {RepeatRow(S, MonthOf[Date(e)]) : e \in Purchases(S)}
  BY RepeatRows DEF Dates
<1> HIDE DEF T
<1>7. ASSUME NEW r \in RepeatPurchase(T), r.month < m PROVE r \in RepeatPurchase(S)
  <2>1. PICK e \in Purchases(T) : r = RepeatRow(T, MonthOf[Date(e)])
    BY <1>5
  <2>2. MonthOf[Date(e)] < m /\ MonthOf[Date(e)] \in Int
    BY <1>1, <1>4, <1>7, <2>1, DatesHaveMonths
  <2> QED
    BY <1>2, <1>3, <1>6, <2>1, <2>2
<1>8. ASSUME NEW r \in RepeatPurchase(S), r.month < m PROVE r \in RepeatPurchase(T)
  <2>1. PICK e \in Purchases(S) : r = RepeatRow(S, MonthOf[Date(e)])
    BY <1>6
  <2>2. MonthOf[Date(e)] < m /\ MonthOf[Date(e)] \in Int
    BY <1>1, <1>4, <1>8, <2>1, DatesHaveMonths
  <2> QED
    BY <1>1, <1>3, <1>5, <2>1, <2>2
<1> QED
  BY <1>7, <1>8 DEF T

\* A bar of the histogram is made of groups of its own date.
Bar(G) == <<DateOf(G), TimeBucket(Earliest(OfType(G, "purchase")) - Earliest(OfType(G, "view")))>>
BarRow(groups, x) ==
  [date |-> x[1], bucket |-> x[2], conversions |-> Cardinality({G \in Converting(groups) : Bar(G) = x})]

LEMMA HistogramRows == \A groups : Histogram(groups) = {BarRow(groups, Bar(G)) : G \in Converting(groups)}
<1> SUFFICES ASSUME NEW groups PROVE Histogram(groups) = {BarRow(groups, Bar(G)) : G \in Converting(groups)}
  OBVIOUS
<1> DEFINE C == Converting(groups)
           bar == [G \in C |-> Bar(G)]
           row(x) == [date |-> x[1], bucket |-> x[2], conversions |-> Cardinality({G \in DOMAIN bar : bar[G] = x})]
<1>1. DOMAIN bar = C /\ \A G \in C : bar[G] = Bar(G)
  OBVIOUS
<1>2. Histogram(groups) = {row(x) : x \in Range(bar)}
  BY DEF Histogram, Bar
<1>3. Range(bar) = {Bar(G) : G \in C}
  BY DEF Range
<1>4. \A x : row(x) = BarRow(groups, x)
  <2>1. \A x : {G \in DOMAIN bar : bar[G] = x} = {G \in C : Bar(G) = x}
    BY <1>1
  <2> HIDE DEF bar
  <2> QED
    BY <2>1 DEF BarRow
<1> HIDE DEF bar, row
<1> QED
  BY <1>2, <1>3, <1>4

\* The bars of some dates are those of the rows of these dates.
LEMMA TimesOnDates ==
  ASSUME NEW S, NEW D
  PROVE  /\ {r \in TimeToConversion(S, Sessionized(S)) : r.date \in D}
              = TimeToConversion(OnDates(S, D), Sessionized(OnDates(S, D)))
         /\ \A r \in TimeToConversion(S, Sessionized(S)) : r.date \in Dates(S)
<1> DEFINE T == OnDates(S, D)
           key(R) == [e \in R |-> <<Date(e), Sessionized(R)[e]>>]
           all == Groups(S, key(S))
           some == Groups(T, key(T))
<1>1. \A e \in T : key(T)[e] = key(S)[e]
  BY SessionsOnDates DEF OnDates
<1>2. Dated(S, key(S))
  BY DEF Dated
<1>3. some = {G \in all : DateOf(G) \in D}
  <2> HIDE DEF key
  <2> QED
    BY <1>1, <1>2, GroupsOnDates
<1>4. \A G \in all : DateOf(G) \in Dates(S)
  <2> HIDE DEF key
  <2> QED
    BY <1>2, GroupHasDate
<1>5. \A R : TimeToConversion(R, Sessionized(R)) = Histogram(Groups(R, key(R)))
  BY DEF TimeToConversion
<1>6. TimeToConversion(S, Sessionized(S)) = Histogram(all) /\ TimeToConversion(T, Sessionized(T)) = Histogram(some)
  BY <1>5
<1> HIDE DEF key, T, all, some
<1>7. /\ Histogram(all) = {BarRow(all, Bar(G)) : G \in Converting(all)}
      /\ Histogram(some) = {BarRow(some, Bar(G)) : G \in Converting(some)}
  BY HistogramRows
<1>8. Converting(some) = {G \in Converting(all) : DateOf(G) \in D} /\ \A G \in Converting(all) : G \in all
  BY <1>3 DEF Converting
<1>9. (\A G : Bar(G)[1] = DateOf(G)) /\ \A groups, x : BarRow(groups, x).date = x[1]
  BY DEF Bar, BarRow
<1>10. \A x : x[1] \in D => BarRow(some, x) = BarRow(all, x)
  <2>1. \A x : x[1] \in D => {G \in Converting(some) : Bar(G) = x} = {G \in Converting(all) : Bar(G) = x}
    BY <1>8, <1>9
  <2> QED
    BY <2>1 DEF BarRow
<1>11. ASSUME NEW r \in Histogram(all) PROVE r.date \in Dates(S) /\ (r.date \in D => r \in Histogram(some))
  <2>1. PICK G \in Converting(all) : r = BarRow(all, Bar(G))
    BY <1>7
  <2>2. r.date = DateOf(G) /\ Bar(G)[1] = DateOf(G)
    BY <1>9, <2>1
  <2> QED
    BY <1>4, <1>7, <1>8, <1>10, <2>1, <2>2
<1>12. ASSUME NEW r \in Histogram(some) PROVE r \in Histogram(all) /\ r.date \in D
  <2>1. PICK G \in Converting(some) : r = BarRow(some, Bar(G))
    BY <1>7
  <2>2. r.date = DateOf(G) /\ Bar(G)[1] = DateOf(G)
    BY <1>9, <2>1
  <2> QED
    BY <1>7, <1>8, <1>10, <2>1, <2>2
<1> QED
  BY <1>6, <1>11, <1>12 DEF T

\* What is not before the first of the months of b does not show in earlier ones.
LEMMA TimesClosed ==
  ASSUME NEW S \in SUBSET Event, NEW b \in SUBSET Event, NEW m, NotAfter(m, b)
  PROVE  {r \in TimeToConversion(S \cup b, Sessionized(S \cup b)) : MonthOf[r.date] < m}
           = {r \in TimeToConversion(S, Sessionized(S)) : MonthOf[r.date] < m}
<1> DEFINE T == S \cup b
           D == {d \in DOMAIN MonthOf : MonthOf[d] < m}
           times(R) == TimeToConversion(R, Sessionized(R))
<1>1. T \in SUBSET Event /\ m \in Int
  BY DEF NotAfter
<1>2. OnDates(T, D) = OnDates(S, D)
  BY <1>1, DatesHaveMonths DEF OnDates, NotAfter
<1>3. ASSUME NEW R \in SUBSET Event
      PROVE  {r \in times(R) : MonthOf[r.date] < m} = times(OnDates(R, D))
  <2>1. {r \in times(R) : r.date \in D} = times(OnDates(R, D)) /\ \A r \in times(R) : r.date \in Dates(R)
    BY TimesOnDates
  <2>2. \A d \in Dates(R) : d \in D <=> MonthOf[d] < m
    BY DatesHaveMonths DEF Dates
  <2> HIDE DEF times, D
  <2> QED
    BY <2>1, <2>2
<1> HIDE DEF times, D
<1>4. {r \in times(T) : MonthOf[r.date] < m} = {r \in times(S) : MonthOf[r.date] < m}
  BY <1>1, <1>2, <1>3
<1> QED
  BY <1>4 DEF times

\* Unless the full refresh is off, the marts of all history are those of Silver.
HistoryInv == RowsOK /\ (Full => history = HistoryMarts(silver))

LEMMA LeastMonth ==
  ASSUME NEW b \in SUBSET Event, b # {}
  PROVE  NotAfter(Min({MonthOf[d] : d \in Dates(b)}), b)
<1> DEFINE A == {MonthOf[d] : d \in Dates(b)}
<1>1. IsFiniteSet(Dates(b)) /\ Dates(b) # {}
  BY DatesOfGroup
<1>2. IsFiniteSet(A)
  BY <1>1, ImageFinite
<1>3. A # {} /\ A \in SUBSET Int /\ \A e \in b : MonthOf[Date(e)] \in A
  BY <1>1, DatesHaveMonths DEF Dates
<1> HIDE DEF A
<1>4. Min(A) \in A /\ \A y \in A : Min(A) <= y
  BY <1>2, <1>3, Extremes
<1> QED
  BY <1>3, <1>4 DEF NotAfter, A

\* A batch changes no cohort, repeat or conversion row of a month before its own first one, late
\* rows included, for any rows, batches and calendar.
THEOREM MonthsCloseAlways == Spec => MonthsClose
<1>1. Init => HistoryInv
  BY DEF Init, HistoryInv, RowsOK
<1>2. HistoryInv /\ [Next]_vars => HistoryInv'
  BY GoldAssumption DEF Next, Publish, RefreshGoldTables, vars, HistoryInv, RowsOK
<1> DEFINE b == silver' \ silver
           m == Min({MonthOf[d] : d \in Dates(b)})
<1>3. ASSUME HistoryInv, Next, NEW e \in b PROVE Closed(history', m) = Closed(history, m)
  <2>1. PICK c \in Batch : Publish(c)
    BY <1>3 DEF Next
  <2>2. c = b /\ silver' = silver \cup b /\ silver \in SUBSET Event /\ b \in SUBSET Event
    BY <1>3, <2>1, GoldAssumption DEF Publish, HistoryInv, RowsOK
  <2>3. NotAfter(m, b)
    BY <1>3, <2>2, LeastMonth
  <2>4. CASE ~Full
    BY <2>1, <2>4 DEF Publish, RefreshGoldTables
  <2>5. CASE Full
    <3>1. history = HistoryMarts(silver) /\ history' = HistoryMarts(silver \cup b)
      BY <1>3, <2>1, <2>2, <2>5 DEF HistoryInv, Publish, RefreshGoldTables
    <3> HIDE DEF b, m
    <3>2. {r \in CohortRetention(silver \cup b) : r.cohort + r.offset < m} = {r \in CohortRetention(silver) : r.cohort + r.offset < m}
      BY <2>2, <2>3, CohortsClosed
    <3>3. {r \in RepeatPurchase(silver \cup b) : r.month < m} = {r \in RepeatPurchase(silver) : r.month < m}
      BY <2>2, <2>3, RepeatsClosed
    <3>4. {r \in TimeToConversion(silver \cup b, Sessionized(silver \cup b)) : MonthOf[r.date] < m}
            = {r \in TimeToConversion(silver, Sessionized(silver)) : MonthOf[r.date] < m}
      BY <2>2, <2>3, TimesClosed
    <3> QED
      BY <3>1, <3>2, <3>3, <3>4 DEF Closed, HistoryMarts
  <2> QED
    BY <2>4, <2>5
<1>4. HistoryInv /\ [Next]_vars => [\A e \in silver' \ silver :
                    LET m_1 == Min({MonthOf[d] : d \in Dates(silver' \ silver)})
                    IN Closed(history', m_1) = Closed(history, m_1)]_vars
  BY <1>3
<1> QED
  BY <1>1, <1>2, <1>4, PTL DEF Spec, MonthsClose

-----------------------------------------------------------------------------
(* Scores. *)

\* Integer division, told apart by the multiples between which a number lies.
LEMMA Quotient ==
  ASSUME NEW a \in Int, NEW d \in Nat \ {0}, NEW c \in Int
  PROVE  /\ a \div d \in Int
         /\ a >= c * d <=> a \div d >= c
<1> DEFINE q == a \div d
           r == a % d
<1>1. q \in Int /\ r \in Int /\ a = d * q + r /\ 0 <= r /\ r < d
  OBVIOUS
<1> HIDE DEF q, r
<1>2. ASSUME q >= c PROVE a >= c * d
  <2>1. d * q >= c * d
    BY <1>1, <1>2
  <2> QED
    BY <1>1, <2>1
<1>3. ASSUME q < c PROVE a < c * d
  <2>1. d * (q + 1) <= c * d
    BY <1>1, <1>3
  <2>2. d * (q + 1) = d * q + d
    BY <1>1
  <2> QED
    BY <1>1, <2>1, <2>2
<1>4. a >= c * d => q >= c
  <2> DEFINE p == c * d
  <2>1. p \in Int
    OBVIOUS
  <2> HIDE DEF p
  <2>2. q < c => a < p
    BY <1>3 DEF p
  <2>3. a >= p => q >= c
    BY <1>1, <2>1, <2>2
  <2> QED
    BY <2>3 DEF p
<1> QED
  BY <1>1, <1>2, <1>4 DEF q

LEMMA QuotientGrows ==
  ASSUME NEW a \in Int, NEW b \in Int, NEW d \in Nat \ {0}, a <= b
  PROVE  a \div d <= b \div d
<1> DEFINE q == a \div d
           p == q * d
<1>1. q \in Int /\ b \div d \in Int
  BY Quotient
<1>2. p \in Int
  BY <1>1
<1>3. a >= p
  <2>1. a >= q * d <=> q >= q
    BY <1>1, Quotient
  <2> QED
    BY <1>1, <2>1
<1>4. b >= p
  <2> HIDE DEF p
  <2> QED
    BY <1>2, <1>3
<1> HIDE DEF q
<1>5. b >= q * d <=> b \div d >= q
  BY <1>1, Quotient
<1> QED
  BY <1>1, <1>4, <1>5 DEF q

\* Where tile t of n rows ends.
Ends(t, n) == t * (n \div 5) + (IF t <= n % 5 THEN t ELSE n % 5)

LEMMA Tiles ==
  ASSUME NEW n \in Nat \ {0}, NEW k \in 1 .. n
  PROVE  Ntile(k, n) \in 1 .. 5 /\ \A t \in 0 .. 5 : Ntile(k, n) > t <=> k > Ends(t, n)
<1> DEFINE s == n \div 5
           l == n % 5
           end == l * (s + 1)
           a == (k - 1) \div (s + 1)
           b == (k - 1 - end) \div s
           T == Ntile(k, n)
<1>1. s \in Nat /\ l \in 0 .. 4 /\ n = 5 * s + l /\ k \in Int /\ 1 <= k /\ k <= n
  OBVIOUS
<1>2. T = IF k <= end THEN a + 1 ELSE l + b + 1
  BY DEF Ntile
<1>3. \A t \in 0 .. 5 : Ends(t, n) = t * s + (IF t <= l THEN t ELSE l)
  BY DEF Ends
<1> HIDE DEF T
<1>4. a \in Int /\ \A c \in 0 .. 5 : k - 1 >= c * (s + 1) <=> a >= c
  <2> HIDE DEF s
  <2>1. s + 1 \in Nat \ {0} /\ k - 1 \in Int
    BY <1>1
  <2> QED
    BY <2>1, Quotient
<1>5. ASSUME s > 0 PROVE b \in Int /\ \A c \in 0 .. 5 : k - 1 - end >= c * s <=> b >= c
  <2>1. end \in Int
    BY <1>1
  <2> HIDE DEF s, end, l
  <2>2. s \in Nat \ {0} /\ k - 1 - end \in Int
    BY <1>1, <1>5, <2>1
  <2> QED
    BY <2>2, Quotient
<1>6. end = l * (s + 1)
  BY DEF end
<1> HIDE DEF s, l, a, b, end
<1>7. /\ 0 * (s + 1) = 0 /\ 1 * (s + 1) = s + 1 /\ 2 * (s + 1) = 2 * s + 2 /\ 3 * (s + 1) = 3 * s + 3
      /\ 4 * (s + 1) = 4 * s + 4 /\ 5 * (s + 1) = 5 * s + 5 /\ 0 * s = 0 /\ 1 * s = s
  BY <1>1
<1>8. /\ k - 1 >= 0 <=> a >= 0
      /\ k - 1 >= s + 1 <=> a >= 1
      /\ k - 1 >= 2 * s + 2 <=> a >= 2
      /\ k - 1 >= 3 * s + 3 <=> a >= 3
      /\ k - 1 >= 4 * s + 4 <=> a >= 4
      /\ k - 1 >= 5 * s + 5 <=> a >= 5
  BY <1>4, <1>7
<1>9. ASSUME s > 0 PROVE  /\ k - 1 - end >= 0 <=> b >= 0
                          /\ k - 1 - end >= s <=> b >= 1
                          /\ k - 1 - end >= 2 * s <=> b >= 2
                          /\ k - 1 - end >= 3 * s <=> b >= 3
                          /\ k - 1 - end >= 4 * s <=> b >= 4
                          /\ k - 1 - end >= 5 * s <=> b >= 5
  BY <1>5, <1>7, <1>9
<1>10. /\ Ends(0, n) = 0 /\ Ends(1, n) = s + (IF 1 <= l THEN 1 ELSE l) /\ Ends(2, n) = 2 * s + (IF 2 <= l THEN 2 ELSE l)
       /\ Ends(3, n) = 3 * s + (IF 3 <= l THEN 3 ELSE l) /\ Ends(4, n) = 4 * s + l /\ Ends(5, n) = 5 * s + l
  BY <1>1, <1>3, <1>7
<1>11. ASSUME NEW x \in 0 .. 4, l = x
       PROVE  /\ T \in 1 .. 5 /\ (T > 0 <=> k > Ends(0, n)) /\ (T > 1 <=> k > Ends(1, n)) /\ (T > 2 <=> k > Ends(2, n))
              /\ (T > 3 <=> k > Ends(3, n)) /\ (T > 4 <=> k > Ends(4, n)) /\ (T > 5 <=> k > Ends(5, n))
  <2>1. end = x * s + x
    BY <1>1, <1>6, <1>11
  <2>2. CASE x = 0
    <3>1. end = 0
      BY <1>1, <2>1, <2>2
    <3> QED
      BY <1>1, <1>2, <1>5, <1>9, <1>10, <1>11, <2>2, <3>1
  <2>3. CASE x = 1
    <3>1. end = s + 1
      BY <1>1, <2>1, <2>3
    <3> QED
      BY <1>1, <1>2, <1>4, <1>5, <1>8, <1>9, <1>10, <1>11, <2>3, <3>1
  <2>4. CASE x = 2
    <3>1. end = 2 * s + 2
      BY <1>1, <2>1, <2>4
    <3> QED
      BY <1>1, <1>2, <1>4, <1>5, <1>8, <1>9, <1>10, <1>11, <2>4, <3>1
  <2>5. CASE x = 3
    <3>1. end = 3 * s + 3
      BY <1>1, <2>1, <2>5
    <3> QED
      BY <1>1, <1>2, <1>4, <1>5, <1>8, <1>9, <1>10, <1>11, <2>5, <3>1
  <2>6. CASE x = 4
    <3>1. end = 4 * s + 4
      BY <1>1, <2>1, <2>6
    <3> QED
      BY <1>1, <1>2, <1>4, <1>5, <1>8, <1>9, <1>10, <1>11, <2>6, <3>1
  <2> QED
    BY <2>2, <2>3, <2>4, <2>5, <2>6
<1> QED
  BY <1>1, <1>11 DEF T

\* Scores fall with the position, within 1 .. 5.
Falling(score, n) == \A i, j \in 1 .. n : score[i] \in 1 .. 5 /\ (i <= j => score[i] >= score[j])

LEMMA TilesFall ==
  ASSUME NEW n \in Nat
  PROVE  Falling([k \in 1 .. n |-> 6 - Ntile(k, n)], n)
<1>1. ASSUME NEW i \in 1 .. n, NEW j \in 1 .. n, i <= j
      PROVE  Ntile(i, n) \in 1 .. 5 /\ Ntile(i, n) <= Ntile(j, n)
  <2>1. n \in Nat \ {0}
    BY <1>1
  <2>2. /\ Ntile(i, n) \in 1 .. 5 /\ (\A t \in 0 .. 5 : Ntile(i, n) > t <=> i > Ends(t, n))
        /\ Ntile(j, n) \in 1 .. 5 /\ (\A t \in 0 .. 5 : Ntile(j, n) > t <=> j > Ends(t, n))
    BY <2>1, Tiles
  <2>3. \A t \in 0 .. 5 : Ends(t, n) \in Int
    <3>1. n \div 5 \in Int /\ n % 5 \in Int
      OBVIOUS
    <3> QED
      BY <3>1 DEF Ends
  <2>4. \A t \in 0 .. 5 : Ntile(i, n) > t => Ntile(j, n) > t
    BY <1>1, <2>2, <2>3
  <2>5. Ntile(i, n) > Ntile(i, n) - 1 /\ Ntile(i, n) - 1 \in 0 .. 5
    BY <2>2
  <2> QED
    BY <2>2, <2>4, <2>5
<1>2. \A i \in 1 .. n : Ntile(i, n) \in 1 .. 5
  BY <1>1
<1> QED
  BY <1>1, <1>2 DEF Falling

LEMMA QuintilesFall ==
  ASSUME NEW n \in Nat
  PROVE  Falling([k \in 1 .. n |-> QuintileScore(k, n)], n)
<1> DEFINE q(k) == ((k - 1) * 5) \div n
<1>1. \A k \in 1 .. n : q(k) \in Int /\ q(k) >= 0
  <2>1. ASSUME NEW k \in 1 .. n PROVE q(k) \in Int /\ q(k) >= 0
    <3>1. n \in Nat \ {0} /\ (k - 1) * 5 \in Int /\ (k - 1) * 5 >= 0 * n
      OBVIOUS
    <3> QED
      BY <3>1, Quotient
  <2> QED
    BY <2>1
<1>2. \A i, j \in 1 .. n : i <= j => q(i) <= q(j)
  <2>1. ASSUME NEW i \in 1 .. n, NEW j \in 1 .. n, i <= j PROVE q(i) <= q(j)
    <3>1. n \in Nat \ {0} /\ (i - 1) * 5 \in Int /\ (j - 1) * 5 \in Int /\ (i - 1) * 5 <= (j - 1) * 5
      BY <2>1
    <3> QED
      BY <3>1, QuotientGrows
  <2> QED
    BY <2>1
<1>3. \A k \in 1 .. n : [i \in 1 .. n |-> QuintileScore(i, n)][k] = 5 - (IF q(k) > 4 THEN 4 ELSE q(k))
  BY DEF QuintileScore
<1> HIDE DEF q
<1> DEFINE score == [i \in 1 .. n |-> QuintileScore(i, n)]
<1> HIDE DEF score
<1>4. \A k \in 1 .. n : score[k] = 5 - (IF q(k) > 4 THEN 4 ELSE q(k))
  BY <1>3 DEF score
<1>5. Falling(score, n)
  BY <1>1, <1>2, <1>4 DEF Falling
<1> QED
  BY <1>5 DEF score

\* No tile has over one row more than another.
LEMMA TilesEven ==
  ASSUME NEW n \in Nat \ {0}
  PROVE  Max(TileSizes(n)) - Min(TileSizes(n)) <= 1
<1> DEFINE s == n \div 5
           l == n % 5
           size(t) == Cardinality({k \in 1 .. n : Ntile(k, n) = t})
<1>1. s \in Nat /\ l \in 0 .. 4 /\ n = 5 * s + l
  OBVIOUS
<1>2. /\ \A t \in 0 .. 5 : Ends(t, n) \in 0 .. n
      /\ \A t \in 1 .. 5 : Ends(t, n) - Ends(t - 1, n) \in {s, s + 1}
  <2>1. \A t \in 0 .. 5 : Ends(t, n) = t * s + (IF t <= l THEN t ELSE l)
    BY DEF Ends
  <2> HIDE DEF s, l
  <2>2. /\ 0 * s = 0 /\ 1 * s = s
    BY <1>1
  <2>3. /\ Ends(0, n) = 0 /\ Ends(1, n) = s + (IF 1 <= l THEN 1 ELSE l) /\ Ends(2, n) = 2 * s + (IF 2 <= l THEN 2 ELSE l)
        /\ Ends(3, n) = 3 * s + (IF 3 <= l THEN 3 ELSE l) /\ Ends(4, n) = 4 * s + l /\ Ends(5, n) = 5 * s + l
    BY <1>1, <2>1, <2>2
  <2> QED
    BY <1>1, <2>3
<1>3. ASSUME NEW t \in 1 .. 5 PROVE size(t) \in {s, s + 1}
  <2> DEFINE a == Ends(t - 1, n)
             b == Ends(t, n)
  <2>1. a \in 0 .. n /\ b \in 0 .. n /\ b - a \in {s, s + 1} /\ t - 1 \in 0 .. 5 /\ t \in 0 .. 5
    BY <1>2
  <2>2. \A k \in 1 .. n : Ntile(k, n) \in 1 .. 5 /\ (Ntile(k, n) > t - 1 <=> k > a) /\ (Ntile(k, n) > t <=> k > b)
    BY <2>1, Tiles
  <2> HIDE DEF a, b
  <2>3. \A k \in 1 .. n : Ntile(k, n) = t <=> k \in a + 1 .. b
    BY <2>1, <2>2
  <2>4. {k \in 1 .. n : Ntile(k, n) = t} = a + 1 .. b
    BY <2>1, <2>3
  <2>5. Cardinality(a + 1 .. b) = IF a + 1 > b THEN 0 ELSE b - (a + 1) + 1
    BY <2>1, FS_Interval
  <2> HIDE DEF s, l
  <2>6. (IF a + 1 > b THEN 0 ELSE b - (a + 1) + 1) = b - a
    BY <1>1, <2>1
  <2>7. Cardinality({k \in 1 .. n : Ntile(k, n) = t}) = b - a
    BY <2>4, <2>5, <2>6
  <2> QED
    BY <2>1, <2>7
<1>4. TileSizes(n) = {size(t) : t \in 1 .. 5}
  BY DEF TileSizes
<1> HIDE DEF size, s, l
<1>5. TileSizes(n) \subseteq {s, s + 1} /\ TileSizes(n) # {}
  <2>1. 1 \in 1 .. 5
    OBVIOUS
  <2> QED
    BY <1>3, <1>4, <2>1
<1>6. IsFiniteSet({s, s + 1})
  <2>1. {s, s + 1} = s .. s + 1 /\ s \in Int /\ s + 1 \in Int
    BY <1>1
  <2> HIDE DEF s
  <2>2. IsFiniteSet(s .. s + 1)
    BY <2>1, FS_Interval
  <2> QED
    BY <2>1, <2>2
<1>7. IsFiniteSet(TileSizes(n)) /\ TileSizes(n) \in SUBSET Int
  BY <1>1, <1>5, <1>6, FS_Subset
<1>8. Min(TileSizes(n)) \in TileSizes(n) /\ Max(TileSizes(n)) \in TileSizes(n)
  BY <1>5, <1>7, Extremes
<1> QED
  BY <1>1, <1>5, <1>8

\* Values of users put them into a total order, ties broken by their ids.
LEMMA PositionFacts ==
  ASSUME NEW value, IsFiniteSet(DOMAIN value), DOMAIN value \in SUBSET Int, \A u \in DOMAIN value : value[u] \in Int
  PROVE  \A u, v \in DOMAIN value : /\ Position(value, u) \in 1 .. Cardinality(DOMAIN value)
                                    /\ value[u] < value[v] => Position(value, u) < Position(value, v)
<1> DEFINE R == DOMAIN value
           less == {uv \in R \X R : value[uv[1]] < value[uv[2]] \/ (value[uv[1]] = value[uv[2]] /\ uv[1] < uv[2])}
<1>1. \A u, v \in R : <<u, v>> \in less <=> (value[u] < value[v] \/ (value[u] = value[v] /\ u < v))
  OBVIOUS
<1>2. \A u \in R : u \in Int /\ value[u] \in Int
  OBVIOUS
<1> HIDE DEF less
<1>3. Ordered(R, less)
  BY <1>1, <1>2 DEF Ordered
<1>4. \A u \in R : Position(value, u) = PlaceOf(R, less, u)
  <2>1. ASSUME NEW u \in R PROVE Position(value, u) = PlaceOf(R, less, u)
    <3>1. {v \in R : value[v] < value[u] \/ (value[v] = value[u] /\ v < u)} = {v \in R : <<v, u>> \in less}
      BY <1>1
    <3> QED
      BY <3>1 DEF Position, PlaceOf
  <2> QED
    BY <2>1
<1>5. /\ \A t \in R : PlaceOf(R, less, t) \in 1 .. Cardinality(R)
      /\ \A s, t \in R : <<s, t>> \in less <=> PlaceOf(R, less, s) < PlaceOf(R, less, t)
  BY <1>3, Places
<1> HIDE DEF R
<1>6. \A u, v \in R : /\ Position(value, u) \in 1 .. Cardinality(R)
                      /\ value[u] < value[v] => Position(value, u) < Position(value, v)
  BY <1>1, <1>4, <1>5
<1> QED
  BY <1>6 DEF R

\* Who has a lower value gets no lower score.
LEMMA ScoreFalls ==
  ASSUME NEW value, IsFiniteSet(DOMAIN value), DOMAIN value \in SUBSET Int, \A u \in DOMAIN value : value[u] \in Int,
         NEW score, Falling(score, Cardinality(DOMAIN value)),
         NEW u \in DOMAIN value, NEW v \in DOMAIN value
  PROVE  /\ score[Position(value, u)] \in 1 .. 5
         /\ value[u] < value[v] => score[Position(value, u)] >= score[Position(value, v)]
<1> DEFINE n == Cardinality(DOMAIN value)
           i == Position(value, u)
           j == Position(value, v)
<1>1. i \in 1 .. n /\ j \in 1 .. n /\ (value[u] < value[v] => i < j) /\ n \in Nat
  BY PositionFacts, FS_CardinalityType
<1> HIDE DEF i, j, n
<1>2. Falling(score, n)
  BY DEF n
<1>3. score[i] \in 1 .. 5 /\ (value[u] < value[v] => score[i] >= score[j])
  BY <1>1, <1>2 DEF Falling
<1> QED
  BY <1>3 DEF i, j

\* What a buyer did, as numbers.
Numbers(base) == /\ IsFiniteSet(DOMAIN base) /\ DOMAIN base \in SUBSET Int
                 /\ \A u \in DOMAIN base : {base[u].recency, base[u].frequency, base[u].monetary} \subseteq Int

LEMMA RowsFair ==
  ASSUME NEW asOf, NEW base, Numbers(base), NEW score, Falling(score, Cardinality(DOMAIN base))
  PROVE  Fair(RfmRows(asOf, base, score))
<1> DEFINE R == DOMAIN base
           vr == [v \in R |-> base[v].recency]
           vf == [v \in R |-> -base[v].frequency]
           vm == [v \in R |-> -base[v].monetary]
           r == [u \in R |-> score[Position(vr, u)]]
           f == [u \in R |-> score[Position(vf, u)]]
           m == [u \in R |-> score[Position(vm, u)]]
<1>1. IsFiniteSet(R) /\ R \in SUBSET Int
      /\ \A u \in R : base[u].recency \in Int /\ base[u].frequency \in Int /\ base[u].monetary \in Int
  BY DEF Numbers
<1>2. /\ DOMAIN vr = R /\ DOMAIN vf = R /\ DOMAIN vm = R
      /\ \A u \in R : vr[u] \in Int /\ vf[u] \in Int /\ vm[u] \in Int
      /\ \A u, v \in R : /\ base[u].recency < base[v].recency => vr[u] < vr[v]
                         /\ base[u].frequency > base[v].frequency => vf[u] < vf[v]
                         /\ base[u].monetary > base[v].monetary => vm[u] < vm[v]
  BY <1>1
<1>3. \A p \in RfmRows(asOf, base, score) : \E u \in R : p.base = base[u] /\ p.r = r[u] /\ p.f = f[u] /\ p.m = m[u]
  <2>1. RfmRows(asOf, base, score) =
          {[asOf |-> asOf, user |-> u, r |-> r[u], f |-> f[u], m |-> m[u], segment |-> Segment(r[u], f[u], m[u]),
            base |-> base[u]] : u \in R}
    BY DEF RfmRows
  <2> HIDE DEF r, f, m
  <2> QED
    BY <2>1
<1>4. Falling(score, Cardinality(R))
  OBVIOUS
<1>5. \A u, v \in R : r[u] \in 1 .. 5 /\ (vr[u] < vr[v] => r[u] >= r[v])
  <2> HIDE DEF vr
  <2>1. \A u, v \in R : score[Position(vr, u)] \in 1 .. 5
                        /\ (vr[u] < vr[v] => score[Position(vr, u)] >= score[Position(vr, v)])
    BY <1>1, <1>2, <1>4, ScoreFalls
  <2> QED
    BY <2>1
<1>6. \A u, v \in R : f[u] \in 1 .. 5 /\ (vf[u] < vf[v] => f[u] >= f[v])
  <2> HIDE DEF vf
  <2>1. \A u, v \in R : score[Position(vf, u)] \in 1 .. 5
                        /\ (vf[u] < vf[v] => score[Position(vf, u)] >= score[Position(vf, v)])
    BY <1>1, <1>2, <1>4, ScoreFalls
  <2> QED
    BY <2>1
<1>7. \A u, v \in R : m[u] \in 1 .. 5 /\ (vm[u] < vm[v] => m[u] >= m[v])
  <2> HIDE DEF vm
  <2>1. \A u, v \in R : score[Position(vm, u)] \in 1 .. 5
                        /\ (vm[u] < vm[v] => score[Position(vm, u)] >= score[Position(vm, v)])
    BY <1>1, <1>2, <1>4, ScoreFalls
  <2> QED
    BY <2>1
<1> HIDE DEF R, vr, vf, vm, r, f, m
<1>8. ASSUME NEW p \in RfmRows(asOf, base, score), NEW q \in RfmRows(asOf, base, score)
      PROVE  /\ p.base.recency < q.base.recency => p.r >= q.r
             /\ p.base.frequency > q.base.frequency => p.f >= q.f
             /\ p.base.monetary > q.base.monetary => p.m >= q.m
             /\ {p.r, p.f, p.m} \subseteq 1 .. 5
  <2>1. PICK u \in R : p.base = base[u] /\ p.r = r[u] /\ p.f = f[u] /\ p.m = m[u]
    BY <1>3
  <2>2. PICK v \in R : q.base = base[v] /\ q.r = r[v] /\ q.f = f[v] /\ q.m = m[v]
    BY <1>3
  <2> QED
    BY <1>2, <1>5, <1>6, <1>7, <2>1, <2>2
<1> QED
  BY <1>8 DEF Fair

LEMMA UsersAreNumbers ==
  ASSUME NEW P \in SUBSET Event
  PROVE  IsFiniteSet(Users(P)) /\ Users(P) \in SUBSET Int
<1> DEFINE user == [e \in P |-> e.user]
<1>1. IsFiniteSet(P)
  BY SilverAssumption, FS_Subset
<1>2. IsFiniteSet({user[e] : e \in P})
  BY <1>1, ImageFinite
<1>3. Users(P) \subseteq {user[e] : e \in P}
  BY DEF Users
<1>4. Users(P) \in SUBSET Int
  BY SilverAssumption DEF Users
<1> QED
  BY <1>2, <1>3, <1>4, FS_Subset

LEMMA BaseIsNumbers ==
  ASSUME NEW S \in SUBSET Event, NEW asOf \in Int
  PROVE  Numbers(RfmBase(S, asOf)) /\ Cardinality(DOMAIN RfmBase(S, asOf)) \in Nat
<1> DEFINE P == {e \in Purchases(S) : Date(e) > asOf - Lookback /\ Date(e) <= asOf}
           of(u) == {e \in P : e.user = u}
<1>1. P \in SUBSET Event
  BY DEF Purchases, OfType
<1>2. ASSUME NEW u \in Users(P)
      PROVE  /\ asOf - Max(Dates(of(u))) \in Int /\ Cardinality(of(u)) \in Int /\ Revenue(of(u)) \in Int
  <2>1. of(u) \in SUBSET Event /\ of(u) # {}
    BY <1>1, <1>2 DEF Users
  <2>2. Max(Dates(of(u))) \in Int
    BY <2>1, DatesOfGroup
  <2>3. IsFiniteSet(of(u))
    BY <2>1, SilverAssumption, FS_Subset
  <2>4. Cardinality(of(u)) \in Nat
    BY <2>3, FS_CardinalityType
  <2>5. Revenue(of(u)) \in Int
    <3> DEFINE h == [e \in of(u) |-> Price(e)]
    <3>1. \A e \in of(u) : h[e] = Price(e)
      OBVIOUS
    <3> HIDE DEF h, of, P
    <3> QED
      BY <2>1, <3>1, RevenueIsSum
  <2> QED
    BY <2>2, <2>4, <2>5
<1>3. IsFiniteSet(Users(P)) /\ Users(P) \in SUBSET Int
  BY <1>1, UsersAreNumbers
<1>4. RfmBase(S, asOf) = [u \in Users(P) |-> [recency |-> asOf - Max(Dates(of(u))), frequency |-> Cardinality(of(u)),
                                              monetary |-> Revenue(of(u))]]
  BY DEF RfmBase
<1> HIDE DEF P, of
<1>5. Cardinality(Users(P)) \in Nat
  BY <1>3, FS_CardinalityType
<1> QED
  BY <1>2, <1>3, <1>4, <1>5 DEF Numbers

LEMMA ScoresAreFair ==
  ASSUME RowsOK
  PROVE  ScoresFair
<1>1. silver \in SUBSET Event
  BY DEF RowsOK
<1>2. Fair(RfmSegmentation(silver))
  <2>1. CASE Purchases(silver) = {}
    BY <2>1 DEF RfmSegmentation, Fair
  <2>2. CASE Purchases(silver) # {}
    <3> DEFINE asOf == Max(Dates(Purchases(silver)))
               base == RfmBase(silver, asOf)
               n == Cardinality(DOMAIN base)
    <3>1. Purchases(silver) \in SUBSET Event
      BY <1>1 DEF Purchases, OfType
    <3>2. asOf \in Int
      BY <2>2, <3>1, DatesOfGroup
    <3>3. RfmSegmentation(silver) = RfmRows(asOf, base, [k \in 1..n |-> 6 - Ntile(k, n)])
      BY <2>2 DEF RfmSegmentation
    <3> HIDE DEF asOf
    <3>4. Numbers(base) /\ n \in Nat
      BY <1>1, <3>2, BaseIsNumbers
    <3>5. Falling([k \in 1 .. n |-> 6 - Ntile(k, n)], n)
      <4> HIDE DEF n
      <4> QED
        BY <3>4, TilesFall
    <3> HIDE DEF base
    <3> QED
      BY <3>3, <3>4, <3>5, RowsFair
  <2> QED
    BY <2>1, <2>2
<1>3. Fair(LocalRfmSegmentation(silver))
  <2>1. CASE silver = {}
    BY <2>1 DEF LocalRfmSegmentation, Fair
  <2>2. CASE silver # {}
    <3> DEFINE asOf == Max(Dates(silver))
               base == RfmBase(silver, asOf)
               n == Cardinality(DOMAIN base)
    <3>2. asOf \in Int
      BY <1>1, <2>2, DatesOfGroup
    <3>3. LocalRfmSegmentation(silver) = RfmRows(asOf, base, [k \in 1..n |-> QuintileScore(k, n)])
      BY <2>2 DEF LocalRfmSegmentation
    <3> HIDE DEF asOf
    <3>4. Numbers(base) /\ n \in Nat
      BY <1>1, <3>2, BaseIsNumbers
    <3>5. Falling([k \in 1 .. n |-> QuintileScore(k, n)], n)
      <4> HIDE DEF n
      <4> QED
        BY <3>4, QuintilesFall
    <3> HIDE DEF base
    <3> QED
      BY <3>3, <3>4, <3>5, RowsFair
  <2> QED
    BY <2>1, <2>2
<1>4. \A n \in 1 .. Cardinality(Event) : Max(TileSizes(n)) - Min(TileSizes(n)) <= 1
  <2>1. Cardinality(Event) \in Nat
    BY SilverAssumption, FS_CardinalityType
  <2>2. \A n \in 1 .. Cardinality(Event) : n \in Nat \ {0}
    BY <2>1
  <2> QED
    BY <2>2, TilesEven
<1> QED
  BY <1>2, <1>3, <1>4 DEF ScoresFair

-----------------------------------------------------------------------------
(* The engines: cohorts and repeat purchases. *)

LEMMA DatesGrow ==
  ASSUME NEW e \in Event, NEW f \in Event, e.time <= f.time
  PROVE  Date(e) <= Date(f)
<1>1. e.time \in Int /\ f.time \in Int /\ Day \in Nat \ {0}
  BY SilverAssumption
<1> QED
  BY <1>1, QuotientGrows DEF Date

\* The first purchase in the order of time and id is on the first date.
LEMMA FirstOfUser ==
  ASSUME NEW S \in SUBSET Event, NEW u \in Users(Purchases(S))
  PROVE  MonthOf[Date(FirstPurchase(Purchases(S), u))] = Cohort(S, u)
<1> DEFINE G == OfUser(S, u)
           x == FirstPurchase(Purchases(S), u)
<1>1. G \in SUBSET Event /\ G # {}
  BY CohortFacts
<1>2. \E e : IsFirst(G, e)
  BY <1>1, FirstAndLast
<1>3. IsFirst(G, x)
  <2>1. \A e \in Purchases(S) : (e.user = u /\ \A f \in Purchases(S) : f.user = u => f = e \/ Before(e, f)) <=> IsFirst(G, e)
    BY DEF IsFirst, OfUser
  <2>2. \E e \in Purchases(S) : IsFirst(G, e)
    BY <1>2 DEF IsFirst, OfUser
  <2>3. x = CHOOSE e \in Purchases(S) : e.user = u /\ \A f \in Purchases(S) : f.user = u => f = e \/ Before(e, f)
    BY DEF FirstPurchase
  <2> HIDE DEF x, G
  <2> QED
    BY <2>1, <2>2, <2>3
<1> HIDE DEF x
<1>4. x \in G /\ \A f \in G : Date(x) <= Date(f)
  <2>1. x \in G /\ \A f \in G : f = x \/ Before(x, f)
    BY <1>3 DEF IsFirst
  <2>2. \A f \in G : x.time <= f.time
    BY <1>1, <2>1, Order
  <2> HIDE DEF G
  <2> QED
    BY <1>1, <2>1, <2>2, DatesGrow
<1>5. PICK e \in G : Cohort(S, u) = MonthOf[Date(e)] /\ \A f \in G : Date(e) <= Date(f)
  BY CohortFacts
<1>6. Date(e) = Date(x)
  BY <1>1, <1>4, <1>5, DatesHaveMonths
<1> QED
  BY <1>5, <1>6 DEF x

Retained(S, c, k) ==
  {u \in Users(Purchases(S)) : Cohort(S, u) = c /\ \E e \in Purchases(S) : e.user = u /\ MonthOf[Date(e)] - c = k}

LEMMA CellOfRetained ==
  ASSUME NEW S \in SUBSET Event, NEW c, NEW k
  PROVE  Cardinality(Cell(S, c, k)) = Cardinality(Retained(S, c, k))
<1> DEFINE R == Retained(S, c, k)
           v == [u \in R |-> <<c, k, u>>]
<1>1. IsFiniteSet(R)
  <2>1. Purchases(S) \in SUBSET Event
    BY DEF Purchases, OfType
  <2>2. IsFiniteSet(Users(Purchases(S)))
    BY <2>1, UsersAreNumbers
  <2>3. R \subseteq Users(Purchases(S))
    BY DEF Retained
  <2> QED
    BY <2>2, <2>3, FS_Subset
<1>2. Cell(S, c, k) = {<<c, k, u>> : u \in R}
  <2>1. ASSUME NEW a \in Cell(S, c, k) PROVE a \in {<<c, k, u>> : u \in R}
    <3>1. PICK e \in Purchases(S) : a = <<Cohort(S, e.user), MonthOf[Date(e)] - Cohort(S, e.user), e.user>>
      BY DEF Cell, Active
    <3>2. Cohort(S, e.user) = c /\ MonthOf[Date(e)] - Cohort(S, e.user) = k
      BY <3>1 DEF Cell
    <3>3. e.user \in R
      BY <3>2, Buyer DEF Retained
    <3>4. a = <<c, k, e.user>>
      BY <3>1, <3>2
    <3> QED
      BY <3>3, <3>4
  <2>2. ASSUME NEW u \in R PROVE <<c, k, u>> \in Cell(S, c, k)
    <3>1. PICK e \in Purchases(S) : e.user = u /\ MonthOf[Date(e)] - c = k
      BY DEF Retained
    <3>2. Cohort(S, u) = c
      BY DEF Retained
    <3>3. <<c, k, u>> \in Active(S)
      BY <3>1, <3>2 DEF Active
    <3> QED
      BY <3>3 DEF Cell
  <2> QED
    BY <2>1, <2>2
<1>3. \A u \in R : v[u] = <<c, k, u>>
  OBVIOUS
<1>4. \A u, w \in R : v[u] = v[w] => u = w
  BY <1>3
<1>5. {v[u] : u \in R} = {<<c, k, u>> : u \in R}
  BY <1>3
<1> HIDE DEF v, R
<1>6. Cardinality({v[u] : u \in R}) = Cardinality(R)
  BY <1>1, <1>4, OneForOne
<1> QED
  BY <1>2, <1>5, <1>6 DEF R

LEMMA CohortsAgree ==
  ASSUME NEW S \in SUBSET Event
  PROVE  LocalCohortRetention(S) = CohortRetention(S)
<1> DEFINE P == Purchases(S)
           month == [u \in Users(P) |-> MonthOf[Date(FirstPurchase(P, u))]]
           retained(c, k) == {u \in Users(P) : month[u] = c /\ \E e \in P : e.user = u /\ MonthOf[Date(e)] - c = k}
           offsets == {<<month[e.user], MonthOf[Date(e)] - month[e.user]>> : e \in P}
           row(o) == [cohort |-> o[1], offset |-> o[2], users |-> Cardinality({u \in Users(P) : month[u] = o[1]}),
                      active |-> Cardinality(retained(o[1], o[2]))]
           off(a) == <<a[1], a[2]>>
<1>1. \A u \in Users(P) : month[u] = Cohort(S, u)
  BY FirstOfUser
<1>2. LocalCohortRetention(S) = {row(o) : o \in {p \in offsets : p[2] >= 0}}
  BY DEF LocalCohortRetention
<1>3. \A c : {u \in Users(P) : month[u] = c} = Members(S, c)
  BY <1>1 DEF Members
<1>4. \A c, k : retained(c, k) = Retained(S, c, k)
  BY <1>1 DEF Retained
<1>5. \A o : row(o) = CohortRow(S, o[1], o[2])
  <2> HIDE DEF month, retained
  <2> QED
    BY <1>3, <1>4, CellOfRetained DEF CohortRow
<1>6. offsets = {off(a) : a \in Active(S)}
  <2>1. offsets = {<<Cohort(S, e.user), MonthOf[Date(e)] - Cohort(S, e.user)>> : e \in P}
    BY <1>1, Buyer
  <2> DEFINE entry(e) == <<Cohort(S, e.user), MonthOf[Date(e)] - Cohort(S, e.user), e.user>>
  <2>2. Active(S) = {entry(e) : e \in P}
    BY DEF Active
  <2>3. \A e : off(entry(e)) = <<Cohort(S, e.user), MonthOf[Date(e)] - Cohort(S, e.user)>>
    OBVIOUS
  <2> HIDE DEF offsets, month, entry, off
  <2> QED
    BY <2>1, <2>2, <2>3
<1> HIDE DEF month, retained, row, offsets
<1>7. \A a : off(a)[1] = a[1] /\ off(a)[2] = a[2]
  OBVIOUS
<1> HIDE DEF off
<1>8. LocalCohortRetention(S) = {CohortRow(S, a[1], a[2]) : a \in {x \in Active(S) : x[2] >= 0}}
  <2>1. ASSUME NEW r \in LocalCohortRetention(S)
        PROVE  \E a \in Active(S) : a[2] >= 0 /\ r = CohortRow(S, a[1], a[2])
    <3>1. PICK o \in offsets : o[2] >= 0 /\ r = row(o)
      BY <1>2
    <3>2. PICK a \in Active(S) : o = off(a)
      BY <1>6
    <3> QED
      BY <1>5, <1>7, <3>1, <3>2
  <2>2. ASSUME NEW a \in Active(S), a[2] >= 0 PROVE CohortRow(S, a[1], a[2]) \in LocalCohortRetention(S)
    <3>1. off(a) \in offsets /\ off(a)[2] >= 0
      BY <1>6, <1>7, <2>2
    <3>2. row(off(a)) = CohortRow(S, a[1], a[2])
      BY <1>5, <1>7
    <3> QED
      BY <1>2, <3>1, <3>2
  <2> QED
    BY <2>1, <2>2
<1> QED
  BY <1>8, CohortRows

\* A date is before the first of a month when its month is before that month.
LEMMA MonthStart ==
  ASSUME NEW c \in DOMAIN MonthOf, NEW d \in DOMAIN MonthOf
  PROVE  c < Min({x \in DOMAIN MonthOf : MonthOf[x] = MonthOf[d]}) <=> MonthOf[c] < MonthOf[d]
<1> DEFINE A == {x \in DOMAIN MonthOf : MonthOf[x] = MonthOf[d]}
           s == Min(A)
<1>1. IsFiniteSet(DOMAIN MonthOf) /\ DOMAIN MonthOf \subseteq Int
      /\ \A x, y \in DOMAIN MonthOf : MonthOf[y] \in Int /\ (x <= y => MonthOf[x] <= MonthOf[y])
  BY CalendarAssumption
<1>2. A \in SUBSET Int /\ IsFiniteSet(A) /\ A # {}
  BY <1>1, FS_Subset
<1>3. s \in A /\ \A y \in A : s <= y
  <2> HIDE DEF A
  <2> QED
    BY <1>2, Extremes
<1>4. s \in DOMAIN MonthOf /\ MonthOf[s] = MonthOf[d] /\ (MonthOf[c] = MonthOf[d] => s <= c)
  BY <1>3
<1> HIDE DEF s
<1>5. c \in Int /\ s \in Int /\ MonthOf[c] \in Int /\ MonthOf[d] \in Int
      /\ (c <= s => MonthOf[c] <= MonthOf[d]) /\ (s <= c => MonthOf[d] <= MonthOf[c])
  BY <1>1, <1>4
<1>6. c < s <=> MonthOf[c] < MonthOf[d]
  BY <1>4, <1>5
<1> QED
  BY <1>6 DEF s

LEMMA RepeatsAgree ==
  ASSUME NEW S \in SUBSET Event
  PROVE  LocalRepeatPurchase(S) = RepeatPurchase(S)
<1> DEFINE P == Purchases(S)
           first == [u \in Users(P) |-> Min({Date(e) : e \in {f \in P : f.user = u}})]
           start(m) == Min({d \in DOMAIN MonthOf : MonthOf[d] = m})
           row(m) == [month |-> m, purchasers |-> Cardinality(Users({e \in P : MonthOf[Date(e)] = m})),
                      repeats |-> Cardinality({u \in Users({e \in P : MonthOf[Date(e)] = m}) : first[u] < start(m)})]
<1>1. LocalRepeatPurchase(S) = {row(m) : m \in {MonthOf[Date(e)] : e \in P}}
  BY DEF LocalRepeatPurchase
<1>2. \A u \in Users(P) : first[u] = FirstPurchaseDate(P, u)
  BY DEF FirstPurchaseDate, Dates
<1>3. ASSUME NEW e \in P PROVE row(MonthOf[Date(e)]) = RepeatRow(S, MonthOf[Date(e)])
  <2> DEFINE m == MonthOf[Date(e)]
  <2>1. P \in SUBSET Event
    BY DEF Purchases, OfType
  <2>2. \A u \in Buyers(S, m) : u \in Users(P)
    BY DEF Buyers, Users
  <2>3. ASSUME NEW u \in Users(P) PROVE first[u] < start(m) <=> Cohort(S, u) < m
    <3>1. PICK f \in OfUser(S, u) : Cohort(S, u) = MonthOf[Date(f)] /\ FirstPurchaseDate(P, u) = Date(f)
      BY CohortFacts
    <3>2. f \in Event /\ e \in Event
      BY <2>1, CohortFacts
    <3>3. Date(f) \in DOMAIN MonthOf /\ Date(e) \in DOMAIN MonthOf
      BY <3>2, DatesHaveMonths
    <3>4. Date(f) < start(m) <=> MonthOf[Date(f)] < m
      BY <3>3, MonthStart
    <3>5. first[u] = Date(f)
      BY <1>2, <3>1
    <3> HIDE DEF start, first, m
    <3> QED
      BY <3>1, <3>4, <3>5
  <2> HIDE DEF start, first, m
  <2>4. {u \in Buyers(S, m) : first[u] < start(m)} = Again(S, m)
    BY <2>2, <2>3 DEF Again
  <2>5. Users({g \in P : MonthOf[Date(g)] = m}) = Buyers(S, m)
    BY DEF Buyers
  <2>6. row(m) = RepeatRow(S, m)
    BY <2>4, <2>5 DEF RepeatRow
  <2> QED
    BY <2>6 DEF m
<1>4. RepeatPurchase(S) = {RepeatRow(S, MonthOf[Date(e)]) : e \in P}
  BY RepeatRows DEF Dates
<1> HIDE DEF row, P
<1>5. LocalRepeatPurchase(S) = {row(MonthOf[Date(e)]) : e \in P}
  BY <1>1
<1> QED
  BY <1>3, <1>4, <1>5

-----------------------------------------------------------------------------
(* The engines: the marts of a date. *)

\* Keys that agree on which rows are alike make the same groups.
LEMMA SameGroups ==
  ASSUME NEW S, NEW key, NEW other, \A e, f \in S : key[e] = key[f] <=> other[e] = other[f]
  PROVE  Groups(S, key) = Groups(S, other)
<1>1. \A f \in S : {e \in S : key[e] = key[f]} = {e \in S : other[e] = other[f]}
  OBVIOUS
<1>2. \A k : Groups(S, k) = {{e \in S : k[e] = k[f]} : f \in S}
  BY DEF Groups
<1> QED
  BY <1>1, <1>2

\* Two marts of the same groups, looked at in the columns that they share.
Columns(mart, C) == {[c \in C |-> r[c]] : r \in mart}
Alike(a, b, groups, C) == \A G \in groups : \A c \in C : a[G][c] = b[G][c]

LEMMA SameColumns ==
  ASSUME NEW C, NEW groups, NEW a, NEW b, Alike(a, b, groups, C)
  PROVE  Columns(Rows(a, groups), C) = Columns(Rows(b, groups), C)
<1>1. \A G \in groups : [c \in C |-> a[G][c]] = [c \in C |-> b[G][c]]
  BY DEF Alike
<1> DEFINE seen(r) == [c \in C |-> r[c]]
<1>2. ASSUME NEW x PROVE Columns(Rows(x, groups), C) = {seen(x[G]) : G \in groups}
  <2>1. Columns(Rows(x, groups), C) = {seen(r) : r \in Rows(x, groups)}
    BY DEF Columns
  <2> HIDE DEF seen
  <2> QED
    BY <2>1 DEF Rows
<1>3. \A G \in groups : seen(a[G]) = seen(b[G])
  BY <1>1
<1> HIDE DEF seen
<1>4. {seen(a[G]) : G \in groups} = {seen(b[G]) : G \in groups}
  BY <1>3
<1> QED
  BY <1>2, <1>4

LEMMA FunnelsAgree == \A S : ConversionFunnel(S) = ConversionFunnelDaily(S)
<1> SUFFICES ASSUME NEW S PROVE ConversionFunnel(S) = ConversionFunnelDaily(S)
  OBVIOUS
<1> DEFINE on(d) == OnDates(S, {d})
           row(G) == [date |-> DateOf(G), stages |-> Stages(G)]
<1>1. \A e \in S : {f \in S : ByDate(S)[f] = ByDate(S)[e]} = on(Date(e))
  BY DEF ByDate, OnDates
<1>2. Groups(S, ByDate(S)) = {on(Date(e)) : e \in S}
  <2>1. Groups(S, ByDate(S)) = {{f \in S : ByDate(S)[f] = ByDate(S)[e]} : e \in S}
    BY DEF Groups
  <2> HIDE DEF on
  <2> QED
    BY <1>1, <2>1
<1>3. \A e \in S : DateOf(on(Date(e))) = Date(e)
  <2>1. ASSUME NEW e \in S PROVE DateOf(on(Date(e))) = Date(e)
    <3>1. Dates(on(Date(e))) = {Date(e)}
      BY DEF OnDates, Dates
    <3> QED
      BY <3>1 DEF DateOf
  <2> QED
    BY <2>1
<1>4. ConversionFunnelDaily(S) = {row(G) : G \in Groups(S, ByDate(S))}
  BY DEF ConversionFunnelDaily
<1>5. ConversionFunnel(S) = {[date |-> Date(e), stages |-> Stages(on(Date(e)))] : e \in S}
  BY DEF ConversionFunnel, Dates
<1>6. \A e \in S : row(on(Date(e))) = [date |-> Date(e), stages |-> Stages(on(Date(e)))]
  BY <1>3
<1> HIDE DEF on, row
<1>7. ConversionFunnelDaily(S) = {row(on(Date(e))) : e \in S}
  BY <1>2, <1>4
<1> QED
  BY <1>5, <1>6, <1>7

LEMMA UsersAgree ==
  ASSUME NEW S, NEW sid
  PROVE  Columns(UserActivitySummary(S), {"date", "user", "first", "last", "counts"})
           = Columns(UserConversionPath(S, sid), {"date", "user", "first", "last", "counts"})
<1> DEFINE groups == UserGroups(S)
           K == ByUser(S)
           row(G) == [date |-> DateOf(G), user |-> Shared(K, G)[2], events |-> Cardinality(G),
                      products |-> Cardinality({e.product : e \in G}), first |-> Earliest(G),
                      last |-> Latest(G), counts |-> Counts(G)]
           a == [G \in groups |-> row(G)]
           b == [G \in groups |-> UserRow(S, sid, G)]
<1>1. UserEntry(S) = K
  BY DEF UserEntry, ByUser
<1>2. UserActivitySummary(S) = Rows(a, groups)
  <2>1. UserActivitySummary(S) = {row(G) : G \in groups}
    BY <1>1 DEF UserActivitySummary, UserGroups
  <2> HIDE DEF row, groups
  <2> QED
    BY <2>1 DEF Rows
<1>3. UserConversionPath(S, sid) = Rows(b, groups)
  <2>1. UserConversionPath(S, sid) = {UserRow(S, sid, G) : G \in groups}
    BY UserRows
  <2> HIDE DEF groups
  <2> QED
    BY <2>1 DEF Rows
<1>4. Alike(a, b, groups, {"date", "user", "first", "last", "counts"})
  BY DEF UserRow, Alike
<1> HIDE DEF a, b, groups
<1> QED
  BY <1>2, <1>3, <1>4, SameColumns

LEMMA CategoriesAgree ==
  \A S : RevenueByCategory(S) =
           {[date |-> r.date, category |-> r.category, purchases |-> r.counts.purchases,
             revenue |-> r.counts.revenue, buyers |-> r.buyers] : r \in CategoryPerformance(S)}
<1> SUFFICES ASSUME NEW S
             PROVE  RevenueByCategory(S) =
                      {[date |-> r.date, category |-> r.category, purchases |-> r.counts.purchases,
                        revenue |-> r.counts.revenue, buyers |-> r.buyers] : r \in CategoryPerformance(S)}
  OBVIOUS
<1> DEFINE K == ByCategory(S)
           a(G) == [date |-> DateOf(G), category |-> Shared(K, G)[2], purchases |-> Cardinality(OfType(G, "purchase")),
                    revenue |-> Revenue(G), buyers |-> Cardinality(Users(OfType(G, "purchase")))]
           b(G) == [date |-> DateOf(G), category |-> Shared(K, G)[2],
                    buyers |-> Cardinality(Users(OfType(G, "purchase"))), counts |-> Counts(G)]
           p(r) == [date |-> r.date, category |-> r.category, purchases |-> r.counts.purchases,
                    revenue |-> r.counts.revenue, buyers |-> r.buyers]
<1>1. CategoryEntry(S) = K
  BY DEF CategoryEntry, ByCategory
<1>2. RevenueByCategory(S) = {a(G) : G \in Groups(S, K)}
  BY <1>1 DEF RevenueByCategory
<1>3. CategoryPerformance(S) = {b(G) : G \in Groups(S, K)}
  BY DEF CategoryPerformance
<1>4. \A G : p(b(G)) = a(G)
  BY DEF Counts
<1> HIDE DEF a, b, K
<1>5. {p(r) : r \in CategoryPerformance(S)} = {p(b(G)) : G \in Groups(S, K)}
  BY <1>3
<1> HIDE DEF p
<1>6. {p(r) : r \in CategoryPerformance(S)} = RevenueByCategory(S)
  BY <1>2, <1>4, <1>5
<1> QED
  BY <1>6 DEF p

LEMMA ProductsAgree == \A S : {r.row : r \in TopProductsDaily(S)} \subseteq ProductPopularity(S)
<1> SUFFICES ASSUME NEW S PROVE {r.row : r \in TopProductsDaily(S)} \subseteq ProductPopularity(S)
  OBVIOUS
<1>1. ProductEntry(S) = ByProduct(S)
  BY DEF ProductEntry, ByProduct
<1>2. ProductPopularity(S) = ProductAgg(S)
  BY <1>1 DEF ProductPopularity, ProductAgg
<1> DEFINE A == ProductAgg(S)
           row(p) == [date |-> p.date, rank |-> ProductRank(A, p), row |-> p]
<1>3. TopProductsDaily(S) = {row(p) : p \in {q \in A : ProductRank(A, q) <= TopProducts}}
  BY DEF TopProductsDaily
<1>4. \A p : row(p).row = p
  OBVIOUS
<1> HIDE DEF A, row
<1>5. {r.row : r \in TopProductsDaily(S)} \subseteq A
  BY <1>3, <1>4
<1> QED
  BY <1>2, <1>5 DEF A

-----------------------------------------------------------------------------
(* The engines: marts of sessions with an id. *)

LEMMA PlainKeys ==
  ASSUME NEW S, PlainSessions(S)
  PROVE  /\ \A e \in S : Sessionized(S)[e] = e.session
         /\ \A e, f \in S : e.session = f.session <=> SessionEntry(S)[e] = SessionEntry(S)[f]
<1>1. \A e \in S : Sessionized(S)[e] = e.session
  BY DEF Sessionized, SessionId, PlainSessions
<1>2. \A e, f \in S : e.session = f.session => e.user = f.user /\ Date(e) = Date(f)
  BY DEF PlainSessions
<1>3. \A e \in S : SessionEntry(S)[e] = <<e.user, e.session, Date(e)>>
  BY DEF SessionEntry
<1> QED
  BY <1>1, <1>2, <1>3

LEMMA SessionsAgree ==
  ASSUME NEW S, PlainSessions(S)
  PROVE  SessionSummary(S) = Columns(SessionFunnel(S, Sessionized(S)),
                                     {"date", "user", "session", "start", "end", "events", "counts"})
<1> DEFINE sid == Sessionized(S)
           K == SessionEntry(S)
           L == BySession(S, sid)
           groups == SessionGroups(S, sid)
           C == {"date", "user", "session", "start", "end", "events", "counts"}
           row(G) == [date |-> DateOf(G), user |-> Shared(K, G)[1], session |-> Shared(K, G)[2],
                      start |-> Earliest(G), end |-> Latest(G), events |-> Cardinality(G), counts |-> Counts(G)]
           seen(r) == [c \in C |-> r[c]]
<1>1. \A e \in S : K[e] = <<e.user, e.session, Date(e)>> /\ L[e] = <<Date(e), e.user, e.session>>
  BY PlainKeys DEF SessionEntry, BySession
<1>2. Groups(S, K) = groups
  <2>1. \A e, f \in S : K[e] = K[f] <=> L[e] = L[f]
    BY <1>1
  <2> HIDE DEF K, L
  <2>2. Groups(S, K) = Groups(S, L)
    BY <2>1, SameGroups
  <2> QED
    BY <2>2 DEF SessionGroups, L
<1>3. ASSUME NEW G \in groups PROVE Shared(L, G)[2] = Shared(K, G)[1] /\ Shared(L, G)[3] = Shared(K, G)[2]
  <2> DEFINE x == CHOOSE e \in G : TRUE
  <2>1. x \in S
    <3>1. G \in Groups(S, L)
      BY DEF SessionGroups
    <3> HIDE DEF L
    <3>2. G # {} /\ x \in G /\ Groups(S, L) \in SUBSET SUBSET S
      BY <3>1, GroupFacts
    <3> QED
      BY <3>1, <3>2
  <2>2. Shared(L, G) = L[x] /\ Shared(K, G) = K[x]
    BY DEF Shared
  <2> HIDE DEF x, L, K
  <2> QED
    BY <1>1, <2>1, <2>2
<1>4. SessionSummary(S) = {row(G) : G \in groups}
  <2>1. SessionSummary(S) = {row(G) : G \in Groups(S, K)}
    BY DEF SessionSummary
  <2> HIDE DEF row, groups, K
  <2> QED
    BY <1>2, <2>1
<1>5. Columns(SessionFunnel(S, sid), C) = {seen(SessionRow(S, sid, G)) : G \in groups}
  <2>1. SessionFunnel(S, sid) = {SessionRow(S, sid, G) : G \in groups}
    BY SessionRows
  <2>2. Columns(SessionFunnel(S, sid), C) = {seen(r) : r \in SessionFunnel(S, sid)}
    BY DEF Columns
  <2> HIDE DEF groups, seen, sid
  <2> QED
    BY <2>1, <2>2
<1>6. ASSUME NEW G \in groups PROVE row(G) = seen(SessionRow(S, sid, G))
  <2>1. SessionRow(S, sid, G).user = Shared(K, G)[1] /\ SessionRow(S, sid, G).session = Shared(K, G)[2]
    BY <1>3 DEF SessionRow
  <2> HIDE DEF K, L, sid
  <2> QED
    BY <2>1 DEF SessionRow
<1> HIDE DEF row, seen, groups, sid
<1>7. SessionSummary(S) = Columns(SessionFunnel(S, sid), C)
  BY <1>4, <1>5, <1>6
<1> QED
  BY <1>7 DEF sid

LEMMA TimesAgree ==
  ASSUME NEW S, PlainSessions(S)
  PROVE  LocalTimeToConversion(S) = TimeToConversion(S, Sessionized(S))
<1> DEFINE K == SessionEntry(S)
           L == [e \in S |-> <<Date(e), Sessionized(S)[e]>>]
<1>1. \A e, f \in S : e.session = f.session => e.user = f.user /\ Date(e) = Date(f)
  BY DEF PlainSessions
<1>2. \A e \in S : K[e] = <<e.user, e.session, Date(e)>> /\ L[e] = <<Date(e), e.session>>
  BY PlainKeys DEF SessionEntry
<1>3. \A e, f \in S : K[e] = K[f] <=> L[e] = L[f]
  <2> HIDE DEF K, L
  <2> QED
    BY <1>1, <1>2
<1>4. LocalTimeToConversion(S) = Histogram(Groups(S, K)) /\ TimeToConversion(S, Sessionized(S)) = Histogram(Groups(S, L))
  BY DEF LocalTimeToConversion, TimeToConversion
<1> HIDE DEF K, L
<1>5. Groups(S, K) = Groups(S, L)
  BY <1>3, SameGroups
<1> QED
  BY <1>4, <1>5

\* Pairs are counted by baskets: the products p and q are in those of Q's rows of p whose basket has q.
InBoth(Q, k, p, q) == {e \in Q : e.product = p /\ \E f \in Q : k[f] = k[e] /\ f.product = q}
Named(R, k) == {k[e] : e \in R}
\* Two ways to name the baskets of rows.
SameBaskets(Q, k, l) == \A e, f \in Q : k[e] = k[f] <=> l[e] = l[f]

LEMMA NamesCount ==
  ASSUME NEW Q, IsFiniteSet(Q), NEW k, NEW l, SameBaskets(Q, k, l), NEW R \in SUBSET Q
  PROVE  Cardinality(Named(R, k)) = Cardinality(Named(R, l))
<1> DEFINE A == Named(R, k)
           h == [s \in A |-> l[CHOOSE e \in R : k[e] = s]]
<1>1. IsFiniteSet(A)
  <2>1. IsFiniteSet(R)
    BY FS_Subset
  <2> QED
    BY <2>1, ImageFinite DEF Named
<1>2. ASSUME NEW s \in A PROVE \E e \in R : k[e] = s /\ h[s] = l[e]
  <2>1. \E e \in R : k[e] = s
    BY DEF Named
  <2> DEFINE x == CHOOSE e \in R : k[e] = s
  <2>2. x \in R /\ k[x] = s
    BY <2>1
  <2>3. h[s] = l[x]
    OBVIOUS
  <2> HIDE DEF x, h
  <2> QED
    BY <2>2, <2>3
<1> HIDE DEF h
<1>3. \A s, t \in A : h[s] = h[t] => s = t
  BY <1>2 DEF SameBaskets
<1>4. {h[s] : s \in A} = Named(R, l)
  <2>1. ASSUME NEW s \in A PROVE h[s] \in Named(R, l)
    BY <1>2 DEF Named
  <2>2. ASSUME NEW e \in R PROVE l[e] \in {h[s] : s \in A}
    <3>1. k[e] \in A
      BY DEF Named
    <3>2. PICK f \in R : k[f] = k[e] /\ h[k[e]] = l[f]
      BY <1>2, <3>1
    <3>3. l[f] = l[e]
      BY <3>2 DEF SameBaskets
    <3> QED
      BY <3>1, <3>2, <3>3
  <2> QED
    BY <2>1, <2>2 DEF Named
<1> HIDE DEF A
<1>5. Cardinality({h[s] : s \in A}) = Cardinality(A)
  BY <1>1, <1>3, OneForOne
<1> QED
  BY <1>4, <1>5 DEF A

\* The rows of PairsOf, from the rows Q whose baskets k names.
Bought(Q, k) == {<<k[e], e.product>> : e \in Q}
PairRow(Q, k, p, q) ==
  [a |-> p, b |-> q, together |-> Cardinality(Named(InBoth(Q, k, p, q), k)),
   lift |-> <<Cardinality(Named(InBoth(Q, k, p, q), k)) * Cardinality(Named(Q, k)),
              Cardinality(Named(InBoth(Q, k, p, p), k)) * Cardinality(Named(InBoth(Q, k, q, q), k))>>]
Together(Q, k) == {pq \in {e.product : e \in Q} \X {e.product : e \in Q} : pq[1] < pq[2] /\ InBoth(Q, k, pq[1], pq[2]) # {}}

LEMMA PairRows ==
  ASSUME NEW Q, NEW k
  PROVE  PairsOf(Bought(Q, k)) = RankedPairs({PairRow(Q, k, pq[1], pq[2]) : pq \in Together(Q, k)})
<1> DEFINE bought == Bought(Q, k)
           baskets == {b[1] : b \in bought}
           with(p) == {s \in baskets : <<s, p>> \in bought}
           products == {b[2] : b \in bought}
           row(ab) == [a |-> ab[1], b |-> ab[2], together |-> Cardinality(with(ab[1]) \cap with(ab[2])),
                       lift |-> <<Cardinality(with(ab[1]) \cap with(ab[2])) * Cardinality(baskets),
                                  Cardinality(with(ab[1])) * Cardinality(with(ab[2]))>>]
           both == {pq \in products \X products : pq[1] < pq[2] /\ with(pq[1]) \cap with(pq[2]) # {}}
<1>1. PairsOf(bought) = RankedPairs({row(ab) : ab \in both})
  BY DEF PairsOf
<1>2. baskets = Named(Q, k) /\ products = {e.product : e \in Q}
  <2> DEFINE entry(e) == <<k[e], e.product>>
  <2>1. bought = {entry(e) : e \in Q} /\ \A e : entry(e)[1] = k[e] /\ entry(e)[2] = e.product
    BY DEF Bought
  <2> HIDE DEF entry, bought
  <2>2. baskets = {k[e] : e \in Q}
    BY <2>1
  <2>3. products = {e.product : e \in Q}
    BY <2>1
  <2> QED
    BY <2>2, <2>3 DEF Named
<1>3. \A s, p : <<s, p>> \in bought <=> \E e \in Q : k[e] = s /\ e.product = p
  BY DEF Bought
<1> HIDE DEF bought, baskets
<1>4. \A p, q : with(p) \cap with(q) = Named(InBoth(Q, k, p, q), k)
  BY <1>2, <1>3 DEF Named, InBoth
<1>5. \A p : with(p) = Named(InBoth(Q, k, p, p), k)
  <2>1. \A p : with(p) \cap with(p) = with(p)
    OBVIOUS
  <2> HIDE DEF with
  <2> QED
    BY <1>4, <2>1
<1>6. \A p, q : with(p) \cap with(q) # {} <=> InBoth(Q, k, p, q) # {}
  <2>1. \A R : Named(R, k) # {} <=> R # {}
    BY DEF Named
  <2> HIDE DEF with
  <2> QED
    BY <1>4, <2>1
<1>7. \A ab : row(ab) = PairRow(Q, k, ab[1], ab[2])
  <2> HIDE DEF with
  <2> QED
    BY <1>2, <1>4, <1>5 DEF PairRow
<1>8. both = Together(Q, k)
  <2> HIDE DEF with, products
  <2> QED
    BY <1>2, <1>6 DEF Together
<1> HIDE DEF row, both, with, products
<1> QED
  BY <1>1, <1>7, <1>8 DEF bought

LEMMA PairsRenamed ==
  ASSUME NEW Q, IsFiniteSet(Q), NEW k, NEW l, SameBaskets(Q, k, l)
  PROVE  PairsOf(Bought(Q, k)) = PairsOf(Bought(Q, l))
<1>1. \A p, q : InBoth(Q, k, p, q) = InBoth(Q, l, p, q) /\ InBoth(Q, k, p, q) \in SUBSET Q
  BY DEF InBoth, SameBaskets
<1>2. \A R \in SUBSET Q : Cardinality(Named(R, k)) = Cardinality(Named(R, l))
  BY NamesCount
<1>3. \A p, q : PairRow(Q, k, p, q) = PairRow(Q, l, p, q)
  BY <1>1, <1>2 DEF PairRow
<1>4. Together(Q, k) = Together(Q, l)
  BY <1>1 DEF Together
<1>5. {PairRow(Q, k, pq[1], pq[2]) : pq \in Together(Q, k)} = {PairRow(Q, l, pq[1], pq[2]) : pq \in Together(Q, l)}
  BY <1>3, <1>4
<1>6. \A n : PairsOf(Bought(Q, n)) = RankedPairs({PairRow(Q, n, pq[1], pq[2]) : pq \in Together(Q, n)})
  BY PairRows
<1> QED
  BY <1>5, <1>6

LEMMA AffinitiesAgree ==
  ASSUME NEW S \in SUBSET Event, PlainSessions(S)
  PROVE  LocalProductAffinity(S) = ProductAffinity(S, Sessionized(S))
<1> DEFINE Q == {f \in OfType(S, "purchase") : f.product # None}
           k == SessionEntry(S)
           l == Sessionized(S)
<1>1. Q \subseteq S /\ IsFiniteSet(Q)
  <2>1. Q \subseteq S /\ IsFiniteSet(S)
    BY SilverAssumption, FS_Subset DEF OfType
  <2> QED
    BY <2>1, FS_Subset
<1>2. SameBaskets(Q, k, l)
  BY <1>1, PlainKeys DEF SameBaskets
<1>3. LocalProductAffinity(S) = PairsOf(Bought(Q, k)) /\ ProductAffinity(S, Sessionized(S)) = PairsOf(Bought(Q, l))
  BY DEF LocalProductAffinity, ProductAffinity, Bought
<1> HIDE DEF Q, k, l
<1> QED
  BY <1>1, <1>2, <1>3, PairsRenamed

\* Whatever came to Silver, in whatever batches, the local and the Iceberg builders agree on cohorts, repeat
\* purchases, funnels, users, categories and products, on what sessions with an id of one user and date
\* did, and both score fairly.
THEOREM EnginesAgreeAlways == Spec => []EnginesAgree
<1>1. ASSUME RowsOK, RefreshIsRebuild PROVE EnginesAgree
  <2>1. silver \in SUBSET Event
    BY <1>1 DEF RowsOK
  <2>2. /\ daily.conversion_funnel_daily = ConversionFunnelDaily(silver)
        /\ daily.user_conversion_path = UserConversionPath(silver, Sessionized(silver))
        /\ daily.category_performance = CategoryPerformance(silver)
        /\ daily.top_products = TopProductsDaily(silver)
        /\ daily.session_funnel = SessionFunnel(silver, Sessionized(silver))
    BY <1>1 DEF RefreshIsRebuild, DailyMarts
  <2>3. ScoresFair
    BY <1>1, ScoresAreFair
  <2>4. LocalCohortRetention(silver) = CohortRetention(silver) /\ LocalRepeatPurchase(silver) = RepeatPurchase(silver)
    BY <2>1, CohortsAgree, RepeatsAgree
  <2>5. ConversionFunnel(silver) = daily.conversion_funnel_daily
    BY <2>2, FunnelsAgree
  <2>6. {[c \in {"date", "user", "first", "last", "counts"} |-> r[c]] : r \in UserActivitySummary(silver)} =
          {[c \in {"date", "user", "first", "last", "counts"} |-> r[c]] : r \in daily.user_conversion_path}
    BY <2>2, UsersAgree DEF Columns
  <2>7. RevenueByCategory(silver) =
          {[date |-> r.date, category |-> r.category, purchases |-> r.counts.purchases,
            revenue |-> r.counts.revenue, buyers |-> r.buyers] : r \in daily.category_performance}
    BY <2>2, CategoriesAgree
  <2>8. {r.row : r \in daily.top_products} \subseteq ProductPopularity(silver)
    BY <2>2, ProductsAgree
  <2>9. ASSUME PlainSessions(silver)
        PROVE  /\ SessionSummary(silver) =
                    {[c \in {"date", "user", "session", "start", "end", "events", "counts"} |-> r[c]] :
                       r \in daily.session_funnel}
               /\ LocalProductAffinity(silver) = ProductAffinity(silver, Sessionized(silver))
               /\ LocalTimeToConversion(silver) = TimeToConversion(silver, Sessionized(silver))
    <3>1. SessionSummary(silver) = Columns(daily.session_funnel, {"date", "user", "session", "start", "end", "events", "counts"})
      BY <2>2, <2>9, SessionsAgree
    <3>2. LocalProductAffinity(silver) = ProductAffinity(silver, Sessionized(silver))
      BY <2>1, <2>9, AffinitiesAgree
    <3>3. LocalTimeToConversion(silver) = TimeToConversion(silver, Sessionized(silver))
      BY <2>9, TimesAgree
    <3> QED
      BY <3>1, <3>2, <3>3 DEF Columns
  <2> QED
    BY <2>3, <2>4, <2>5, <2>6, <2>7, <2>8, <2>9 DEF EnginesAgree
<1> QED
  BY <1>1, SilverIsRows, RefreshIsRebuildAlways, PTL
=============================================================================
