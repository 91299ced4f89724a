---- MODULE MCMedallion ----
(***************************************************************************)
(* A small lakehouse for TLC: one month of history with a view repeated    *)
(* byte for byte, a purchase, and a stream that replays the purchase with  *)
(* other payload columns, brings a new view of the same day as the first,  *)
(* then that view again, a record that breaks a critical quality rule and  *)
(* one with no event time.                                                 *)
(***************************************************************************)
EXTENDS Medallion, TLC

MCRow == {"view", "viewAgain", "buy", "buyReplay", "late", "lateAgain", "broken", "blank"}
MCHash == {"h1", "h2", "h3", "h4", "h5", "h6"}
MCKey == {"kView", "kBuy", "kLate", "kBroken"}
MCDate == {"d1", "d2"}

MCHashOf == "view" :> "h1" @@ "viewAgain" :> "h1" @@ "buy" :> "h2" @@ "buyReplay" :> "h3"
         @@ "late" :> "h4" @@ "lateAgain" :> "h4" @@ "broken" :> "h5" @@ "blank" :> "h6"
MCKeyOf == "view" :> "kView" @@ "viewAgain" :> "kView" @@ "buy" :> "kBuy"
        @@ "buyReplay" :> "kBuy" @@ "late" :> "kLate" @@ "lateAgain" :> "kLate" @@ "broken" :> "kBroken"
        @@ "blank" :> "kView"
MCValid == MCRow \ {"blank"}
MCDateOf == "kView" :> "d1" @@ "kBuy" :> "d2" @@ "kLate" :> "d1" @@ "kBroken" :> "d2"
MCBad == {"kBroken"}

MCBatch == {"month", "mb0", "mb1"}
MCRowsOf == "month" :> {"view", "viewAgain", "buy"} @@ "mb0" :> {"buyReplay", "late"}
         @@ "mb1" :> {"lateAgain", "broken", "blank"}
MCSliceOf == "month" :> MCRow \ {"blank"} @@ "mb0" :> {} @@ "mb1" :> {}

MCJob == {"backfill", "stream"}
MCBatchJob == {"backfill"}
MCBatchOf == "backfill" :> {"month"} @@ "stream" :> {"mb0", "mb1"}

\* The server's modes, and the demo's, in which both jobs refresh every table.
ServerMode == "backfill" :> "full" @@ "stream" :> "affected_dates"
DemoMode == "backfill" :> "full" @@ "stream" :> "full"

\* daily_revenue aggregates purchases, conversion_funnel_daily every event,
\* and the advanced repeat_purchase purchases of all history.
MCFeeds == <<{"kBuy"}, MCKey, {"kBuy"}>>

\* One table of each kind, where all interleavings of two jobs are explored.
TwoFeeds == <<MCKey, {"kBuy"}>>

\* Without the records the quality gate or the filter keeps out.
TwoBatch == {"month", "mb0"}
TwoRowsOf == "month" :> {"view", "viewAgain", "buy"} @@ "mb0" :> {"buyReplay", "late"}
TwoSliceOf == "month" :> MCRow \ {"blank", "broken"} @@ "mb0" :> {}
TwoBatchOf == "backfill" :> {"month"} @@ "stream" :> {"mb0"}

\* The backfill alone, with one month.
OneBatch == {"month"}
OneJob == {"backfill"}
OneRowsOf == "month" :> {"view", "viewAgain", "buy"}
OneSliceOf == "month" :> {"view", "viewAgain", "buy"}
OneBatchOf == "backfill" :> {"month"}
OneMode == "backfill" :> "full"

=============================================================================
