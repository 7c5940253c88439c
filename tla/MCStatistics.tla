---------------------------- MODULE MCStatistics ----------------------------
EXTENDS Statistics, TLC

\* Three rows in the table, the first of them at the edge of the retention, and
\* three requests that end while the gateway runs, one of them after a long
\* time.
AllLogs == {"old", "mid", "new", "slow", "fast", "late"}

Made == "old" :> 1 @@ "mid" :> 3 @@ "new" :> 6 @@ "slow" :> 4 @@ "fast" :> 7 @@ "late" :> 9

Of(m, p, k) == "model" :> m @@ "provider" :> p @@ "key" :> k

Attributes == "old" :> Of("a", "a", "a") @@ "mid" :> Of("a", "b", "a")
              @@ "new" :> Of("b", "b", "b") @@ "slow" :> Of("a", "a", "b")
              @@ "fast" :> Of("b", "a", "a") @@ "late" :> Of("b", "b", "a")

Took == [l \in AllLogs |-> IF l = "slow" THEN 5 ELSE 1]
=============================================================================
