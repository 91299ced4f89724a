---- MODULE GoldMarts ----
(***************************************************************************)
(* Gold over a Silver table that grows batch by batch: refresh_gold_tables *)
(* recomputes the marts that are partitioned by date from the rows of the  *)
(* affected dates only, and the others from all of Silver.  The same rows  *)
(* go through the builders of the local pipeline, which must agree.        *)
(***************************************************************************)
EXTENDS LocalMarts

CONSTANTS Batch,  \* the sets of rows that one run may append to Silver
          Full    \* whether the run refreshes the marts of all history too

ASSUME GoldAssumption == Batch \subseteq SUBSET Event /\ Full \in BOOLEAN

VARIABLES silver,   \* the rows of Silver
          daily,    \* the rows of each mart partitioned by date
          history   \* the rows of each mart of all history

vars == <<silver, daily, history>>

DailyMarts(S) ==
  LET sid == Sessionized(S)
  IN [daily_revenue |-> DailyRevenue(S), top_products |-> TopProductsDaily(S),
      conversion_funnel_daily |-> ConversionFunnelDaily(S), category_performance |-> CategoryPerformance(S),
      session_funnel |-> SessionFunnel(S, sid), user_conversion_path |-> UserConversionPath(S, sid)]

HistoryMarts(S) ==
  LET sid == Sessionized(S)
  IN [cohort_retention |-> CohortRetention(S), repeat_purchase |-> RepeatPurchase(S),
      product_affinity |-> ProductAffinity(S, sid), time_to_conversion_distribution |-> TimeToConversion(S, sid),
      rfm_segmentation |-> RfmSegmentation(S)]

Init == /\ silver = {}
        /\ daily = DailyMarts({})
        /\ history = HistoryMarts({})

RefreshGoldTables(rows, affected) ==
  LET fresh == DailyMarts(OnDates(rows, affected))
  IN /\ daily' = [m \in DOMAIN daily |-> {r \in daily[m] : r.date \notin affected} \cup fresh[m]]
     /\ history' = IF Full THEN HistoryMarts(rows) ELSE history

Publish(b) == /\ b \cap silver = {}
              /\ silver' = silver \cup b
              /\ RefreshGoldTables(silver \cup b, Dates(b))

Next == \E b \in Batch : Publish(b)
Spec == Init /\ [][Next]_vars

----
(***************************************************************************)
(* Properties.                                                             *)
(***************************************************************************)

\* However Silver grew, the marts that were refreshed date by date are those a
\* rebuild from all of Silver would give: no mart, and no session, looks past
\* the dates of the slice it was computed from.
RefreshIsRebuild == daily = DailyMarts(silver)

\* The counters of the rows of a date, added up.
Total(counts) == [views |-> SumFunction([r \in counts |-> r.counts.views]),
                  carts |-> SumFunction([r \in counts |-> r.counts.carts]),
                  purchases |-> SumFunction([r \in counts |-> r.counts.purchases]),
                  revenue |-> SumFunction([r \in counts |-> r.counts.revenue])]
Of(mart, d) == {r \in mart : r.date = d}

\* On every date the rows of each granularity (session, user, category, product
\* when none is cut off) add up to the same counts, which are those of the funnel
\* and the revenue mart, and users have the sessions that are listed.
CountsReconcile ==
  \A d \in Dates(silver) :
    LET total == Total(Of(daily.category_performance, d))
        ranked == {r.row : r \in Of(daily.top_products, d)}
    IN /\ Total(Of(daily.session_funnel, d)) = total
       /\ Total(Of(daily.user_conversion_path, d)) = total
       /\ Cardinality(ranked) < TopProducts => Total(ranked) = total
       /\ {r.stages : r \in Of(daily.conversion_funnel_daily, d)} =
            {[views |-> total.views, carts |-> total.carts, purchases |-> total.purchases]}
       /\ {<<r.purchases, r.revenue>> : r \in Of(daily.daily_revenue, d)} =
            {<<p, total.revenue>> : p \in {total.purchases} \ {0}}
       /\ \A u \in Of(daily.user_conversion_path, d) :
            u.sessions = Cardinality({s \in Of(daily.session_funnel, d) : s.user = u.user})

\* A user's path is the merger of the paths of the user's sessions that day: one
\* session and the two agree; several, and a stage or a purchase of one is in
\* the other, with the first touch first (docs/pipeline.md:54).
PathsAgree ==
  \A u \in daily.user_conversion_path :
    LET own == {s \in daily.session_funnel : s.date = u.date /\ s.user = u.user}
        first == {s \in own : \A t \in own : s.start <= t.start}
    IN /\ u.sessions = 1 => \A s \in own : s.label = u.label
       /\ ToSet(u.label) = UNION {ToSet(s.label) : s \in own}
       /\ u.converted = \E s \in own : s.converted
       /\ u.label # <<>> => \E s \in first : u.label[1] = s.label[1]
       /\ u.first = Min({s.start : s \in own}) /\ u.last = Max({s.end : s \in own})

\* The published marts tell one story, of counts and of paths
\* (infra/jobs/batch_backfill_to_iceberg.py:1341-1348).
MartsReconcile == CountsReconcile /\ PathsAgree

\* Rows without a session id are in one derived session when nothing but such rows
\* of the same user and date lies between them, none of them more than 30 minutes
\* after the one before (docs/pipeline.md:53), and in different ones otherwise, as
\* long as lpad has not cut the number of either: by then the user has had as many
\* such rows on the date as four digits count.
DerivedSessions ==
  LET sid == Sessionized(silver)
      Bare == {e \in silver : e.session = None}
      Same(e, f) == e.user = f.user /\ Date(e) = Date(f)
      Between(e, f) == {g \in silver : g.user = e.user /\ Date(g) = Date(e) /\ Before(e, g) /\ Before(g, f)}
      UpTo(f) == {g \in Bare : Same(g, f) /\ (g = f \/ Before(g, f))}
      Run(e, f) == LET R == Between(e, f) \cup {e, f}
                   IN /\ R \subseteq Bare
                      /\ \A g \in R \ {f} : \E h \in R : Before(g, h) /\ h.time - g.time <= Inactivity
  IN \A e, f \in Bare : Before(e, f) =>
       /\ Same(e, f) /\ Run(e, f) => sid[e] = sid[f]
       /\ sid[e] = sid[f] => Same(e, f) /\ (Run(e, f) \/ Cardinality(UpTo(f)) >= PadLimit)

\* Scores of both engines are fair: who bought more recently, more often or for
\* more never scores less, and Spark's tiles of n users differ by at most one.
Fair(rows) == \A p, q \in rows : /\ p.base.recency < q.base.recency => p.r >= q.r
                                 /\ p.base.frequency > q.base.frequency => p.f >= q.f
                                 /\ p.base.monetary > q.base.monetary => p.m >= q.m
                                 /\ {p.r, p.f, p.m} \subseteq 1 .. 5
TileSizes(n) == {Cardinality({k \in 1 .. n : Ntile(k, n) = t}) : t \in 1 .. 5}
ScoresFair == /\ Fair(RfmSegmentation(silver))
              /\ Fair(LocalRfmSegmentation(silver))
              /\ \A n \in 1 .. Cardinality(Event) : Max(TileSizes(n)) - Min(TileSizes(n)) <= 1

\* The two implementations of Gold agree: on cohorts, repeat purchases, funnels,
\* categories and products of any Silver table; on sessions, pairs and times to
\* conversion when every row has a session id, used by one user on one date;
\* and the scores of both are fair.
PlainSessions(S) == \A e \in S : /\ e.session # None
                                 /\ \A f \in S : f.session = e.session => f.user = e.user /\ Date(f) = Date(e)
EnginesAgree ==
  /\ ScoresFair
  /\ LocalCohortRetention(silver) = CohortRetention(silver)
  /\ LocalRepeatPurchase(silver) = RepeatPurchase(silver)
  /\ ConversionFunnel(silver) = daily.conversion_funnel_daily
  /\ {[c \in {"date", "user", "first", "last", "counts"} |-> r[c]] : r \in UserActivitySummary(silver)} =
       {[c \in {"date", "user", "first", "last", "counts"} |-> r[c]] : r \in daily.user_conversion_path}
  /\ RevenueByCategory(silver) =
       {[date |-> r.date, category |-> r.category, purchases |-> r.counts.purchases,
         revenue |-> r.counts.revenue, buyers |-> r.buyers] : r \in daily.category_performance}
  /\ {r.row : r \in daily.top_products} \subseteq ProductPopularity(silver)
  /\ PlainSessions(silver) =>
       /\ SessionSummary(silver) =
            {[c \in {"date", "user", "session", "start", "end", "events", "counts"} |-> r[c]] :
               r \in daily.session_funnel}
       /\ LocalProductAffinity(silver) = ProductAffinity(silver, Sessionized(silver))
       /\ LocalTimeToConversion(silver) = TimeToConversion(silver, Sessionized(silver))

\* A batch changes no cohort, repeat or conversion row of a month before its own
\* first one, whatever months Silver has already: a late row reopens its month and
\* those after it, and a user whom it moves to an earlier cohort leaves no trace
\* further back.
Closed(h, m) == [cohorts |-> {r \in h.cohort_retention : r.cohort + r.offset < m},
                 repeats |-> {r \in h.repeat_purchase : r.month < m},
                 times |-> {r \in h.time_to_conversion_distribution : MonthOf[r.date] < m}]
MonthsClose == [][\A e \in silver' \ silver :
                    LET m == Min({MonthOf[d] : d \in Dates(silver' \ silver)})
                    IN Closed(history', m) = Closed(history, m)]_vars
====
