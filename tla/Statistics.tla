----------------------------- MODULE Statistics -----------------------------
(***************************************************************************)
(* The statistics in memory (internal/stats): hourly buckets, filled by the *)
(* collector's worker after each row it inserts and, at the start of the    *)
(* process, by a backfill that pages through the table of request logs,     *)
(* newest first, while rows are being inserted.                             *)
(*                                                                         *)
(* A bucket that does not exist is the empty one.  An average is kept as    *)
(* the sum it is the average of; tokens and costs add up like latencies and *)
(* are left out.  Operators whose name ends in Slip are wrong on purpose,   *)
(* to see that the properties notice.                                       *)
(***************************************************************************)
EXTENDS Integers, FiniteSets, FiniteSetsExt

CONSTANTS
    Logs,           \* request logs
    At,             \* At[l]: when the request was made; all different
    Attr,           \* Attr[l]: its model, provider and API key, per dimension
    Names,          \* models, providers and API keys
    Latency,        \* Latency[l]: total time of the request
    Nothing,        \* no log
    Failed,         \* the logs with a status of 400 or more
    Earlier,        \* the rows in the table when the process starts
    Hour, HoursPerDay, \* length of an hour, and of a day in hours
    Retention,      \* how long buckets are kept, 90 days in the code
    Page,           \* rows per page of the backfill, 500 in the code
    Start, End,     \* the clock starts at Start and is not followed past End
    MaxErrors       \* bound on failing statements

Dims == {"model", "provider", "key"}
Times == 0 .. End
Hours == 0 .. (End \div Hour)

ASSUME StatisticsAssumption ==
    /\ IsFiniteSet(Logs) /\ IsFiniteSet(Names)
    /\ At \in [Logs -> Times] /\ \A l, m \in Logs : At[l] = At[m] => l = m
    /\ Attr \in [Logs -> [Dims -> Names]]
    /\ Latency \in [Logs -> Nat]
    /\ Failed \subseteq Logs /\ Nothing \notin Logs
    /\ Earlier \subseteq {l \in Logs : At[l] <= Start}
    /\ Hour \in Nat \ {0} /\ HoursPerDay \in Nat \ {0} /\ Page \in Nat \ {0}
    /\ Retention \in Nat /\ End \in Nat /\ Start \in Times /\ MaxErrors \in Nat

VARIABLES
    now,        \* the clock
    rows,       \* the rows of request_logs
    hourly,     \* Accumulator.hourly
    inserted,   \* the row the collector has inserted and not yet recorded
    backfill,   \* the backfill: its place, window, offset, and the rest of its page
    errors,
    meanwhile   \* history: rows inserted while the backfill ran

vars == <<now, rows, hourly, inserted, backfill, errors, meanwhile>>

----------------------------------------------------------------------------
(* The buckets. *)

Tally == [requests |-> 0, errors |-> 0, latency |-> 0]
Bucket == [requests |-> 0, errors |-> 0, latency |-> 0,
           by |-> [d \in Dims |-> [n \in Names |-> Tally]]]

\* hourBucketKey, and the instant a bucket starts at.
BucketOf(t) == t \div Hour
StartOf(h) == h * Hour

ErrorOf(l) == IF l \in Failed THEN 1 ELSE 0

\* One request more in a tally.
Count(t, l) == [t EXCEPT !.requests = @ + 1, !.errors = @ + ErrorOf(l),
                         !.latency = @ + Latency[l]]

\* The breakdowns of a bucket: the tallies of the log's model, provider and key.
CountBy(by, l) == [d \in Dims |-> [by[d] EXCEPT ![Attr[l][d]] = Count(@, l)]]

\* applyLog: the bucket's own numbers and its breakdowns.
Apply(b, l) == [b EXCEPT !.requests = @ + 1, !.errors = @ + ErrorOf(l),
                         !.latency = @ + Latency[l], !.by = CountBy(@, l)]

\* pruneLocked: buckets that start before the cutoff are deleted.
Prune(buckets, cutoff) ==
    [h \in Hours |-> IF StartOf(h) < cutoff THEN Bucket ELSE buckets[h]]

\* Accumulator.Record, under the lock.
Recorded(buckets, l) ==
    Prune([buckets EXCEPT ![BucketOf(At[l])] = Apply(@, l)], now - Retention)

\* How many rows come before that of l, newest first.
Newer(l) == Cardinality({m \in rows : At[m] > At[l]})

\* QueryRequestLogs as the backfill uses it: of the rows of the window, newest
\* first, Page of them from an offset on.
PageAt(since, offset) ==
    {l \in rows : At[l] >= since /\ offset <= Newer(l) /\ Newer(l) < offset + Page}

----------------------------------------------------------------------------
(* The readers.  Only the accumulator's tests call them: the handlers of the *)
(* admin API answer from the store (internal/admin/stats.go:83,120).         *)

Total(tallies) ==
    [requests |-> MapThenSumSet(LAMBDA h : tallies[h].requests, DOMAIN tallies),
     errors   |-> MapThenSumSet(LAMBDA h : tallies[h].errors, DOMAIN tallies),
     latency  |-> MapThenSumSet(LAMBDA h : tallies[h].latency, DOMAIN tallies)]

\* Slip: a bucket's breakdown overwrites that of the bucket before.
DashboardSlip(since) ==
    LET in == {h \in Hours : StartOf(h) >= since}
    IN  [total |-> Total([h \in in |-> hourly[h]]),
         by |-> [d \in Dims |-> [n \in Names |->
                   IF in = {} THEN Tally ELSE hourly[Max(in)].by[d][n]]]]

\* Slip: the hour the window starts in is taken in.
DashboardWideSlip(since) ==
    LET in == {h \in Hours : h >= BucketOf(since)}
    IN  [total |-> Total([h \in in |-> hourly[h]]),
         by |-> [d \in Dims |-> [n \in Names |-> Total([h \in in |-> hourly[h].by[d][n]])]]]

\* DashboardStats: totals and breakdowns over the buckets that start in the
\* window.
Dashboard(since) ==
    LET in == {h \in Hours : StartOf(h) >= since}
    IN  [total |-> Total([h \in in |-> hourly[h]]),
         by |-> [d \in Dims |-> [n \in Names |-> Total([h \in in |-> hourly[h].by[d][n]])]]]

\* TimeSeries by the hour: the window is widened to whole hours.
SeriesByHour(since, until) ==
    [h \in {k \in Hours : k >= BucketOf(since) /\ StartOf(k) <= until} |-> hourly[h]]

\* TimeSeries by the day, each day a sum over the hours that belong to it.
DayOf(h) == h \div HoursPerDay
SeriesByDay(since, until) ==
    [d \in {DayOf(h) : h \in {k \in Hours : DayOf(k) >= DayOf(BucketOf(since))
                                            /\ StartOf(k) <= until}} |->
        Total([h \in {k \in Hours : DayOf(k) = d} |-> hourly[h]])]

----------------------------------------------------------------------------
Init ==
    /\ now = Start
    /\ rows = Earlier
    /\ hourly = [h \in Hours |-> Bucket]
    /\ inserted = Nothing
    /\ backfill = [at |-> "page", since |-> Start - Retention, offset |-> 0,
                   rest |-> {}, short |-> FALSE]
    /\ errors = 0
    /\ meanwhile = {}

Backfilling == backfill.at \in {"page", "rows"}

\* persist inserts the row of a request that was made before now; a request
\* that took long is inserted behind younger ones.
Insert(l) ==
    /\ inserted = Nothing /\ l \notin rows /\ At[l] <= now
    /\ rows' = rows \union {l}
    /\ inserted' = l
    /\ meanwhile' = IF Backfilling THEN meanwhile \union {l} ELSE meanwhile
    /\ UNCHANGED <<now, hourly, backfill, errors>>

\* Then it records the row in the statistics.
CollectorRecords ==
    /\ inserted # Nothing
    /\ hourly' = Recorded(hourly, inserted)
    /\ inserted' = Nothing
    /\ UNCHANGED <<now, rows, backfill, errors, meanwhile>>

\* Slip: an empty page after a full one is taken for a full one.
ReadPageSlip ==
    /\ backfill.at = "page"
    /\ LET page == PageAt(backfill.since, backfill.offset)
       IN  backfill' = [backfill EXCEPT !.at = IF page = {} THEN "page" ELSE "rows",
                                        !.rest = page, !.short = Cardinality(page) < Page]
    /\ UNCHANGED <<now, rows, hourly, inserted, errors, meanwhile>>

\* Backfill reads the next page; an empty one ends it.
ReadPage ==
    /\ backfill.at = "page"
    /\ LET page == PageAt(backfill.since, backfill.offset)
       IN  backfill' = [backfill EXCEPT !.at = IF page = {} THEN "done" ELSE "rows",
                                        !.rest = page, !.short = Cardinality(page) < Page]
    /\ UNCHANGED <<now, rows, hourly, inserted, errors, meanwhile>>

\* The query fails, or the five minutes of the backfill are over.
BackfillFails ==
    /\ backfill.at = "page" /\ errors < MaxErrors
    /\ errors' = errors + 1
    /\ backfill' = [backfill EXCEPT !.at = "failed"]
    /\ UNCHANGED <<now, rows, hourly, inserted, meanwhile>>

\* Backfill records the next row of its page.
BackfillRecords ==
    /\ backfill.at = "rows"
    /\ \E l \in backfill.rest :
        /\ \A m \in backfill.rest : At[m] <= At[l]
        /\ hourly' = Recorded(hourly, l)
        /\ backfill' = [backfill EXCEPT !.rest = @ \ {l}]
    /\ UNCHANGED <<now, rows, inserted, errors, meanwhile>>

\* Slip: the page after a full one starts one row too late.
PageDoneSlip ==
    /\ backfill.at = "rows" /\ backfill.rest = {}
    /\ backfill' = IF backfill.short THEN [backfill EXCEPT !.at = "done"]
                   ELSE [backfill EXCEPT !.at = "page", !.offset = @ + Page + 1]
    /\ UNCHANGED <<now, rows, hourly, inserted, errors, meanwhile>>

\* Slip: a short page does not end the backfill, and the offset stays.
PageDoneAgainSlip ==
    /\ backfill.at = "rows" /\ backfill.rest = {}
    /\ backfill' = [backfill EXCEPT !.at = "page"]
    /\ UNCHANGED <<now, rows, hourly, inserted, errors, meanwhile>>

\* A page that was not full was the last one.
PageDone ==
    /\ backfill.at = "rows" /\ backfill.rest = {}
    /\ backfill' = IF backfill.short THEN [backfill EXCEPT !.at = "done"]
                   ELSE [backfill EXCEPT !.at = "page", !.offset = @ + Page]
    /\ UNCHANGED <<now, rows, hourly, inserted, errors, meanwhile>>

\* Time passes.
Tick ==
    /\ now < End
    /\ now' = now + 1
    /\ UNCHANGED <<rows, hourly, inserted, backfill, errors, meanwhile>>

Backfill == ReadPage \/ BackfillRecords \/ PageDone

Next == \/ \E l \in Logs : Insert(l)
        \/ CollectorRecords \/ Backfill \/ BackfillFails \/ Tick

Spec == Init /\ [][Next]_vars

\* Both goroutines run on.
FairSpec == Spec /\ WF_vars(CollectorRecords) /\ WF_vars(Backfill)

----------------------------------------------------------------------------
Everywhere == Total([h \in Hours |-> hourly[h]])

RowsIn(h) == Cardinality({l \in rows : BucketOf(At[l]) = h})

\* A backfill that came to its end, and a collector that owes nothing, have
\* together counted each row at least once: rows inserted between two pages
\* push others into the next page, never past it.  (The bucket that holds the
\* cutoff is pruned although the table still has rows of the window in it.)
NoneMissed ==
    backfill.at = "done" /\ inserted = Nothing
    => \A h \in Hours : StartOf(h) >= now - Retention => hourly[h].requests >= RowsIn(h)

\* What is counted twice is bounded by the rows inserted while the backfill
\* ran, whether it was such a row itself or one it pushed into the next page.
SurplusBounded == Everywhere.requests <= Cardinality(rows) + Cardinality(meanwhile)

\* The views of the statistics agree.  At every moment the breakdowns of the
\* dashboard by model, by provider and by key each add up to its totals, and the
\* days of a series to its hours.  When the backfill had the table to itself,
\* dashboard and series enclose the truth: the dashboard leaves out the hour
\* the window starts in, the series takes in all of it.
ReadersAgree ==
    /\ \A since \in {t \in Times : t <= now} :
        /\ \A d \in Dims : Total(Dashboard(since).by[d]) = Dashboard(since).total
        /\ since % (Hour * HoursPerDay) = 0
           => Total(SeriesByDay(since, End)) = Total(SeriesByHour(since, End))
    /\ backfill.at = "done" /\ inserted = Nothing /\ meanwhile = {}
       => \A since \in now - Retention .. now :
            LET exact == Cardinality({l \in rows : At[l] >= since})
                series == Total(SeriesByHour(since, now)).requests
            IN  /\ Dashboard(since).total.requests <= exact
                /\ since >= now - Retention + Hour => exact <= series

\* The backfill comes to an end, however rows keep arriving.
BackfillEnds == <>(~Backfilling)

=============================================================================
