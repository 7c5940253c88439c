-------------------------- MODULE StatisticsProofs --------------------------
(***************************************************************************)
(* Proofs about Statistics, for any logs, any length of pages and hours,   *)
(* any retention and any interleaving of the collector with the backfill.  *)
(***************************************************************************)
EXTENDS Statistics, Sums

-----------------------------------------------------------------------------
(***************************************************************************)
(* Hours and days: the arithmetic of \div.                                 *)
(***************************************************************************)

LEMMA Division ==
    ASSUME NEW t \in Int, NEW n \in Nat \ {0}
    PROVE  /\ t \div n \in Int /\ (t \div n) * n <= t /\ t < (t \div n) * n + n
           /\ t \in Nat => t \div n \in Nat
OBVIOUS

\* Products with a positive factor keep the order.
LEMMA Products ==
    ASSUME NEW p \in Int, NEW q \in Int, NEW n \in Nat \ {0}, p * n < q * n + n
    PROVE  p <= q
<1>1. CASE p <= q
    BY <1>1
<1>2. CASE p >= q + 1
  <2>1. (p - (q + 1)) * n >= 0
    <3>1. p - (q + 1) \in Nat
        BY <1>2
    <3>2. \A x, y \in Nat : x * y >= 0
        OBVIOUS
    <3>3. QED
        BY <3>1, <3>2
  <2>2. (p - (q + 1)) * n = p * n - (q * n + n)
      OBVIOUS
  <2>3. p * n \in Int /\ q * n \in Int
      OBVIOUS
  <2>4. QED
      BY <2>1, <2>2, <2>3
<1>3. QED
    BY <1>1, <1>2

LEMMA DivisionMonotone ==
    ASSUME NEW s \in Int, NEW t \in Int, s <= t, NEW n \in Nat \ {0}
    PROVE  s \div n <= t \div n
<1> DEFINE p == s \div n
           q == t \div n
<1>1. p \in Int /\ p * n <= s /\ q \in Int /\ t < q * n + n
    BY Division
<1> HIDE DEF p, q
<1>2. p * n \in Int /\ q * n \in Int
    BY <1>1
<1>3. p * n < q * n + n
    BY <1>1, <1>2
<1>4. p <= q
    BY <1>1, <1>3, Products
<1>5. QED
    BY <1>4 DEF p, q

\* A quotient is known by the interval its dividend lies in.
LEMMA DivisionUnique ==
    ASSUME NEW t \in Nat, NEW n \in Nat \ {0}, NEW q \in Nat
    PROVE  (q * n <= t /\ t < q * n + n) <=> t \div n = q
<1> DEFINE p == t \div n
<1>1. p \in Nat /\ p * n <= t /\ t < p * n + n
    BY Division
<1> HIDE DEF p
<1>2. p * n \in Int /\ q * n \in Int
    BY <1>1
<1>3. ASSUME q * n <= t, t < q * n + n PROVE p = q
  <2>1. p * n < q * n + n /\ q * n < p * n + n
      BY <1>1, <1>2, <1>3
  <2>2. p <= q /\ q <= p
      BY <1>1, <2>1, Products
  <2>3. QED
      BY <1>1, <2>2
<1>4. p = q => q * n <= t /\ t < q * n + n
    BY <1>1
<1>5. QED
    BY <1>3, <1>4 DEF p

-----------------------------------------------------------------------------
(***************************************************************************)
(* Places in the order of the query: newest first.                         *)
(***************************************************************************)
Above(l) == {m \in rows : At[m] > At[l]}
Top(n) == {m \in rows : Newer(m) < n}

LEMMA LogTimes == \A l \in Logs : At[l] \in Nat /\ At[l] <= End
BY StatisticsAssumption DEF Times

LEMMA Rows ==
    ASSUME rows \in SUBSET Logs, NEW S \in SUBSET rows
    PROVE  IsFiniteSet(S) /\ Cardinality(S) \in Nat /\ IsFiniteSet(rows)
<1>1. IsFiniteSet(rows)
    BY StatisticsAssumption, FS_Subset
<1>2. QED
    BY <1>1, FS_Subset, FS_CardinalityType

LEMMA NewerIs ==
    ASSUME rows \in SUBSET Logs, NEW l \in Logs
    PROVE  Newer(l) \in Nat /\ Newer(l) = Cardinality(Above(l)) /\ IsFiniteSet(Above(l))
<1>1. Above(l) \in SUBSET rows
    BY DEF Above
<1>2. QED
    BY <1>1, Rows DEF Newer, Above

\* A newer row has a smaller place.
LEMMA NewerFirst ==
    ASSUME rows \in SUBSET Logs, NEW l \in Logs, NEW m \in rows, At[m] > At[l]
    PROVE  Newer(m) < Newer(l)
<1>1. m \in Logs /\ At[m] \in Nat /\ At[l] \in Nat /\ \A k \in rows : At[k] \in Nat
    BY LogTimes
<1>2. m \in Above(l) /\ m \notin Above(m) /\ Above(m) \in SUBSET (Above(l) \ {m})
    BY <1>1 DEF Above
<1>3. IsFiniteSet(Above(l)) /\ Newer(l) = Cardinality(Above(l)) /\ Newer(m) = Cardinality(Above(m))
    BY <1>1, NewerIs
<1>4. IsFiniteSet(Above(l) \ {m}) /\ Cardinality(Above(l) \ {m}) = Cardinality(Above(l)) - 1
    BY <1>2, <1>3, FS_RemoveElement
<1>5. Cardinality(Above(m)) <= Cardinality(Above(l) \ {m})
    BY <1>2, <1>4, FS_Subset
<1>6. Newer(l) \in Nat /\ Newer(m) \in Nat
    BY <1>1, NewerIs
<1>7. QED
    BY <1>3, <1>4, <1>5, <1>6

LEMMA NewerOrder ==
    ASSUME rows \in SUBSET Logs, NEW l \in rows, NEW m \in rows, Newer(m) < Newer(l)
    PROVE  At[m] > At[l]
<1>1. l \in Logs /\ m \in Logs /\ At[m] \in Nat /\ At[l] \in Nat
    BY LogTimes
<1>2. Newer(l) \in Nat /\ Newer(m) \in Nat
    BY <1>1, NewerIs
<1>3. CASE At[m] = At[l]
  <2>1. l = m
      BY <1>1, <1>3, StatisticsAssumption
  <2>2. QED
      BY <1>2, <2>1
<1>4. CASE At[l] > At[m]
  <2>1. Newer(l) < Newer(m)
      BY <1>1, <1>4, NewerFirst
  <2>2. QED
      BY <1>2, <2>1
<1>5. QED
    BY <1>1, <1>3, <1>4

\* At most n rows have one of the first n places.
LEMMA TopAtMost ==
    ASSUME rows \in SUBSET Logs, NEW n \in Nat
    PROVE  Cardinality(Top(n)) <= n /\ IsFiniteSet(Top(n))
<1>1. Top(n) \in SUBSET rows
    BY DEF Top
<1>2. IsFiniteSet(Top(n)) /\ Cardinality(Top(n)) \in Nat
    BY <1>1, Rows
<1>3. CASE Top(n) = {}
    BY <1>2, <1>3, FS_EmptySet
<1>4. CASE Top(n) # {}
  <2> DEFINE T == {At[m] : m \in Top(n)}
  <2>1. T \subseteq Nat /\ T # {}
      BY <1>1, <1>4, LogTimes
  <2>2. PICK t \in T : \A j \in T : ~(j < t)
      BY <2>1, LeastNatural
  <2>3. PICK l \in Top(n) : t = At[l]
      OBVIOUS
  <2>4. \A m \in Top(n) : ~(At[m] < At[l])
      BY <2>2, <2>3
  <2>5. Top(n) \in SUBSET (Above(l) \cup {l})
    <3> SUFFICES ASSUME NEW m \in Top(n), m # l PROVE m \in Above(l)
        OBVIOUS
    <3>1. m \in Logs /\ l \in Logs /\ m \in rows
        BY <1>1
    <3>2. At[m] # At[l]
        BY <3>1, StatisticsAssumption
    <3>3. At[m] \in Nat /\ At[l] \in Nat
        BY <3>1, LogTimes
    <3>4. QED
        BY <2>4, <3>1, <3>2, <3>3 DEF Above
  <2>6. l \in Logs /\ Newer(l) < n
      BY <1>1 DEF Top
  <2>7. Newer(l) \in Nat /\ Newer(l) = Cardinality(Above(l)) /\ IsFiniteSet(Above(l))
      BY <2>6, NewerIs
  <2>8. IsFiniteSet(Above(l) \cup {l}) /\ Cardinality(Above(l) \cup {l}) <= Newer(l) + 1
      BY <2>7, FS_AddElement
  <2>9. Cardinality(Top(n)) <= Cardinality(Above(l) \cup {l}) /\ Cardinality(Above(l) \cup {l}) \in Nat
      BY <2>5, <2>8, FS_Subset, FS_CardinalityType
  <2>10. QED
      BY <1>2, <2>6, <2>7, <2>8, <2>9
<1>5. QED
    BY <1>3, <1>4

\* When a row has a place behind them, all of the first n places are taken.
LEMMA TopFull ==
    ASSUME rows \in SUBSET Logs, NEW n \in Nat, NEW l \in rows, Newer(l) >= n
    PROVE  Cardinality(Top(n)) = n
<1> DEFINE T == {Newer(m) : m \in {k \in rows : Newer(k) >= n}}
<1>1. T \subseteq Nat /\ T # {}
    BY NewerIs
<1>2. PICK t \in T : \A j \in T : ~(j < t)
    BY <1>1, LeastNatural
<1>3. PICK m \in {k \in rows : Newer(k) >= n} : t = Newer(m)
    OBVIOUS
<1>4. m \in rows /\ m \in Logs /\ Newer(m) >= n /\ Newer(m) \in Nat
    BY <1>3, NewerIs
<1>5. \A k \in rows : Newer(k) >= n => ~(Newer(k) < Newer(m))
    BY <1>2, <1>3
<1>6. Above(m) \in SUBSET Top(n)
  <2> SUFFICES ASSUME NEW k \in Above(m) PROVE k \in Top(n)
      OBVIOUS
  <2>1. k \in rows /\ k \in Logs /\ At[k] > At[m]
      BY DEF Above
  <2>2. Newer(k) < Newer(m) /\ Newer(k) \in Nat
      BY <1>4, <2>1, NewerFirst, NewerIs
  <2>3. Newer(k) < n
      BY <1>5, <2>1, <2>2
  <2>4. QED
      BY <2>1, <2>3 DEF Top
<1>7. IsFiniteSet(Top(n)) /\ Cardinality(Top(n)) <= n
    BY TopAtMost
<1>8. Cardinality(Above(m)) <= Cardinality(Top(n))
    BY <1>6, <1>7, FS_Subset
<1>9. Newer(m) = Cardinality(Above(m)) /\ Cardinality(Top(n)) \in Nat
    BY <1>4, <1>7, NewerIs, FS_CardinalityType
<1>10. QED
    BY <1>4, <1>7, <1>8, <1>9

\* A page that leaves a row of the window behind is full.
LEMMA PageFull ==
    ASSUME rows \in SUBSET Logs, NEW since \in Int, NEW o \in Nat,
           NEW l \in rows, At[l] >= since, Newer(l) >= o + Page
    PROVE  Cardinality(PageAt(since, o)) = Page
<1> DEFINE n == o + Page
<1>1. Page \in Nat /\ n \in Nat /\ Newer(l) \in Nat /\ Newer(l) >= n /\ Newer(l) >= o /\ At[l] \in Nat
    BY StatisticsAssumption, NewerIs, LogTimes
<1>2. Cardinality(Top(n)) = n /\ Cardinality(Top(o)) = o
    BY <1>1, TopFull
<1>3. IsFiniteSet(Top(n)) /\ IsFiniteSet(Top(o))
    BY <1>1, TopAtMost
<1>4. \A m \in rows : m \in Logs /\ Newer(m) \in Nat /\ At[m] \in Nat
    BY NewerIs, LogTimes
<1>5. \A m \in Top(n) : At[m] >= since
  <2> SUFFICES ASSUME NEW m \in Top(n) PROVE At[m] >= since
      OBVIOUS
  <2>1. m \in rows /\ Newer(m) < n
      BY DEF Top
  <2>2. Newer(m) < Newer(l)
      BY <1>1, <1>4, <2>1
  <2>3. At[m] > At[l]
      BY <2>1, <2>2, NewerOrder
  <2>4. QED
      BY <1>1, <1>4, <2>1, <2>3
<1>6. PageAt(since, o) = Top(n) \ Top(o)
  <2>1. ASSUME NEW m \in rows
        PROVE  m \in Top(n) \ Top(o) <=> o <= Newer(m) /\ Newer(m) < n
      BY <1>4 DEF Top
  <2>2. \A m \in rows : m \in Top(n) \ Top(o) => At[m] >= since
      BY <1>5
  <2>3. Top(n) \ Top(o) \in SUBSET rows
      BY DEF Top
  <2>4. PageAt(since, o) = {m \in rows : At[m] >= since /\ o <= Newer(m) /\ Newer(m) < n}
      BY DEF PageAt
  <2> HIDE DEF n
  <2>5. QED
      BY <2>1, <2>2, <2>3, <2>4
<1>7. Top(n) \cap Top(o) = Top(o)
    BY <1>1, <1>4 DEF Top
<1> HIDE DEF n
<1>8. Cardinality(Top(n) \ Top(o)) = Cardinality(Top(n)) - Cardinality(Top(o))
  <2> DEFINE all == Top(n)
             top == Top(o)
  <2>1. IsFiniteSet(all) /\ all \cap top = top
      BY <1>3, <1>7
  <2> HIDE DEF all, top
  <2>2. Cardinality(all \ top) = Cardinality(all) - Cardinality(all \cap top)
      BY <2>1, FS_Difference
  <2>3. QED
      BY <2>1, <2>2 DEF all, top
<1>9. Cardinality(PageAt(since, o)) = n - o
    BY <1>2, <1>6, <1>8
<1>10. QED
    BY <1>1, <1>9 DEF n

\* A page is no longer than Page, and ends within the table.
LEMMA PageFits ==
    ASSUME rows \in SUBSET Logs, NEW since \in Int, NEW o \in Nat
    PROVE  /\ IsFiniteSet(PageAt(since, o)) /\ Cardinality(PageAt(since, o)) \in Nat
           /\ Cardinality(PageAt(since, o)) <= Page
           /\ PageAt(since, o) # {} => o + Cardinality(PageAt(since, o)) <= Cardinality(rows)
<1> DEFINE page == PageAt(since, o)
           n == o + Page
<1>1. page \in SUBSET rows
    BY DEF PageAt
<1>2. IsFiniteSet(page) /\ Cardinality(page) \in Nat /\ IsFiniteSet(rows)
    BY <1>1, Rows
<1>3. Page \in Nat /\ n \in Nat
    BY StatisticsAssumption
<1>4. CASE page = {}
    BY <1>2, <1>3, <1>4, FS_EmptySet
<1>5. CASE page # {}
  <2>1. PICK l \in page : TRUE
      BY <1>5
  <2>2. l \in rows /\ Newer(l) >= o
    <3>1. l \in rows /\ o <= Newer(l)
        BY <2>1 DEF PageAt
    <3>2. Newer(l) \in Nat
        BY <3>1, NewerIs
    <3>3. QED
        BY <3>1, <3>2
  <2>3. Cardinality(Top(o)) = o /\ IsFiniteSet(Top(o))
      BY <2>2, TopFull, TopAtMost
  <2>4. \A m \in rows : m \in Logs /\ Newer(m) \in Nat
      BY NewerIs
  <2>5. page \cap Top(o) = {} /\ page \cup Top(o) \in SUBSET Top(n) /\ page \cup Top(o) \in SUBSET rows
      BY <1>3, <2>4 DEF PageAt, Top
  <2>6. IsFiniteSet(Top(n)) /\ Cardinality(Top(n)) <= n
      BY <1>3, TopAtMost
  <2> HIDE DEF page
  <2>7. IsFiniteSet(page \cup Top(o)) /\ Cardinality(page \cup Top(o)) = Cardinality(page) + o
    <3> DEFINE top == Top(o)
    <3>1. IsFiniteSet(page) /\ IsFiniteSet(top) /\ page \cap top = {} /\ Cardinality(top) = o
        BY <1>2, <2>3, <2>5
    <3> HIDE DEF top
    <3>2. /\ IsFiniteSet(page \cup top)
          /\ Cardinality(page \cup top)
             = Cardinality(page) + Cardinality(top) - Cardinality(page \cap top)
        BY <3>1, FS_Union
    <3>3. Cardinality(page \cap top) = 0
        BY <3>1, FS_EmptySet
    <3>4. Cardinality(page \cup top) = Cardinality(page) + o
        BY <1>2, <3>1, <3>2, <3>3
    <3>5. QED
        BY <3>2, <3>4 DEF top
  <2>8. Cardinality(page \cup Top(o)) <= Cardinality(Top(n)) /\ Cardinality(page \cup Top(o)) <= Cardinality(rows)
      BY <1>2, <2>5, <2>6, FS_Subset
  <2>9. Cardinality(Top(n)) \in Nat /\ Cardinality(rows) \in Nat
      BY <1>2, <2>6, FS_CardinalityType
  <2> HIDE DEF n
  <2>10. Cardinality(page) + o <= n /\ Cardinality(page) + o <= Cardinality(rows)
      BY <1>2, <1>3, <2>6, <2>7, <2>8, <2>9
  <2>11. Cardinality(page) <= Page /\ o + Cardinality(page) <= Cardinality(rows)
      BY <1>2, <1>3, <2>9, <2>10 DEF n
  <2>12. QED
      BY <1>2, <2>11 DEF page
<1>6. QED
    BY <1>4, <1>5

-----------------------------------------------------------------------------
(***************************************************************************)
(* Buckets and totals.                                                     *)
(***************************************************************************)
TallyType == [requests : Nat, errors : Nat, latency : Nat]
BucketType == [requests : Nat, errors : Nat, latency : Nat,
               by : [Dims -> [Names -> TallyType]]]

\* The numbers of tallies, by field.
Requests(T) == [x \in DOMAIN T |-> T[x].requests]
Errors(T) == [x \in DOMAIN T |-> T[x].errors]
Latencies(T) == [x \in DOMAIN T |-> T[x].latency]

Numeric(T) ==
    \A x \in DOMAIN T : T[x].requests \in Nat /\ T[x].errors \in Nat /\ T[x].latency \in Nat

\* What Total computes, field by field.
LEMMA TotalRequests ==
    ASSUME NEW T, IsFiniteSet(DOMAIN T)
    PROVE  Total(T).requests = SumOf(Requests(T), DOMAIN T)
<1> DEFINE S == DOMAIN T
           R(g) == g = [s \in SUBSET S |-> IF s = {} THEN 0
                            ELSE T[CHOOSE x \in s : TRUE].requests + g[s \ {CHOOSE x \in s : TRUE}]]
           total == CHOOSE g : R(g)
<1>1. Total(T).requests = MapThenSumSet(LAMBDA h : T[h].requests, DOMAIN T)
    BY DEF Total
<1>2. MapThenSumSet(LAMBDA h : T[h].requests, DOMAIN T) = total[S]
    BY Zenon DEF MapThenSumSet, MapThenFoldSet
<1>3. \A s \in SUBSET S : s # {} => Requests(T)[Some(s)] = T[Some(s)].requests
    BY SomeIn DEF Requests
<1>4. \A g : R(g) <=> Sums(g, Requests(T), S)
    BY <1>3 DEF Sums, Some
<1> HIDE DEF R
<1>5. \E g : R(g)
    BY <1>4, SumsExist
<1>6. Sums(total, Requests(T), S)
    BY <1>4, <1>5
<1> HIDE DEF total
<1>7. QED
    BY <1>1, <1>2, <1>6, SumIs

LEMMA TotalErrors ==
    ASSUME NEW T, IsFiniteSet(DOMAIN T)
    PROVE  Total(T).errors = SumOf(Errors(T), DOMAIN T)
<1> DEFINE S == DOMAIN T
           R(g) == g = [s \in SUBSET S |-> IF s = {} THEN 0
                            ELSE T[CHOOSE x \in s : TRUE].errors + g[s \ {CHOOSE x \in s : TRUE}]]
           total == CHOOSE g : R(g)
<1>1. Total(T).errors = MapThenSumSet(LAMBDA h : T[h].errors, DOMAIN T)
    BY DEF Total
<1>2. MapThenSumSet(LAMBDA h : T[h].errors, DOMAIN T) = total[S]
    BY Zenon DEF MapThenSumSet, MapThenFoldSet
<1>3. \A s \in SUBSET S : s # {} => Errors(T)[Some(s)] = T[Some(s)].errors
    BY SomeIn DEF Errors
<1>4. \A g : R(g) <=> Sums(g, Errors(T), S)
    BY <1>3 DEF Sums, Some
<1> HIDE DEF R
<1>5. \E g : R(g)
    BY <1>4, SumsExist
<1>6. Sums(total, Errors(T), S)
    BY <1>4, <1>5
<1> HIDE DEF total
<1>7. QED
    BY <1>1, <1>2, <1>6, SumIs

LEMMA TotalLatencies ==
    ASSUME NEW T, IsFiniteSet(DOMAIN T)
    PROVE  Total(T).latency = SumOf(Latencies(T), DOMAIN T)
<1> DEFINE S == DOMAIN T
           R(g) == g = [s \in SUBSET S |-> IF s = {} THEN 0
                            ELSE T[CHOOSE x \in s : TRUE].latency + g[s \ {CHOOSE x \in s : TRUE}]]
           total == CHOOSE g : R(g)
<1>1. Total(T).latency = MapThenSumSet(LAMBDA h : T[h].latency, DOMAIN T)
    BY DEF Total
<1>2. MapThenSumSet(LAMBDA h : T[h].latency, DOMAIN T) = total[S]
    BY Zenon DEF MapThenSumSet, MapThenFoldSet
<1>3. \A s \in SUBSET S : s # {} => Latencies(T)[Some(s)] = T[Some(s)].latency
    BY SomeIn DEF Latencies
<1>4. \A g : R(g) <=> Sums(g, Latencies(T), S)
    BY <1>3 DEF Sums, Some
<1> HIDE DEF R
<1>5. \E g : R(g)
    BY <1>4, SumsExist
<1>6. Sums(total, Latencies(T), S)
    BY <1>4, <1>5
<1> HIDE DEF total
<1>7. QED
    BY <1>1, <1>2, <1>6, SumIs

LEMMA TotalType ==
    ASSUME NEW T, IsFiniteSet(DOMAIN T), Numeric(T)
    PROVE  /\ Total(T) \in TallyType
           /\ Total(T) = [requests |-> SumOf(Requests(T), DOMAIN T),
                          errors   |-> SumOf(Errors(T), DOMAIN T),
                          latency  |-> SumOf(Latencies(T), DOMAIN T)]
<1>1. /\ \A x \in DOMAIN T : Requests(T)[x] \in Nat
      /\ \A x \in DOMAIN T : Errors(T)[x] \in Nat
      /\ \A x \in DOMAIN T : Latencies(T)[x] \in Nat
    BY DEF Numeric, Requests, Errors, Latencies
<1>2. /\ SumOf(Requests(T), DOMAIN T) \in Nat
      /\ SumOf(Errors(T), DOMAIN T) \in Nat
      /\ SumOf(Latencies(T), DOMAIN T) \in Nat
    BY <1>1, SumNat
<1>3. Total(T) = [requests |-> Total(T).requests, errors |-> Total(T).errors,
                  latency |-> Total(T).latency]
    BY DEF Total
<1>4. QED
    BY <1>2, <1>3, TotalRequests, TotalErrors, TotalLatencies DEF TallyType

LEMMA FiniteSets == IsFiniteSet(Hours) /\ IsFiniteSet(Names)
<1>1. End \div Hour \in Int /\ 0 \in Int
    BY StatisticsAssumption, Division
<1>2. QED
    BY <1>1, StatisticsAssumption, FS_Interval DEF Hours

\* The bucket of a log exists, and starts at most an hour before it.
LEMMA BucketOfLog ==
    ASSUME NEW l \in Logs
    PROVE  BucketOf(At[l]) \in Hours
<1>1. At[l] \in Nat /\ At[l] <= End /\ End \in Nat /\ Hour \in Nat \ {0}
    BY StatisticsAssumption, LogTimes
<1>2. At[l] \div Hour \in Nat /\ At[l] \div Hour <= End \div Hour /\ End \div Hour \in Nat
    BY <1>1, Division, DivisionMonotone
<1>3. QED
    BY <1>2 DEF BucketOf, Hours

LEMMA HourNat == \A h \in Hours : h \in Nat /\ StartOf(h) \in Nat
<1>0. End \in Nat /\ Hour \in Nat \ {0}
    BY StatisticsAssumption
<1>1. End \div Hour \in Nat /\ Hour \in Nat
    BY <1>0, Division
<1>2. \A h \in Hours : h \in Nat
    BY <1>1 DEF Hours
<1>3. \A h \in Nat : h * Hour \in Nat
    BY <1>1
<1>4. QED
    BY <1>2, <1>3 DEF StartOf

LEMMA CountIs ==
    ASSUME NEW t \in TallyType, NEW l \in Logs
    PROVE  /\ Count(t, l) \in TallyType
           /\ Count(t, l).requests = t.requests + 1
           /\ Count(t, l).errors = t.errors + ErrorOf(l)
           /\ Count(t, l).latency = t.latency + Latency[l]
           /\ ErrorOf(l) \in Nat /\ Latency[l] \in Nat
<1>1. ErrorOf(l) \in Nat /\ Latency[l] \in Nat
    BY StatisticsAssumption DEF ErrorOf
<1>2. t.requests \in Nat /\ t.errors \in Nat /\ t.latency \in Nat
    BY DEF TallyType
<1> DEFINE x == t.requests + 1
           y == t.errors + ErrorOf(l)
           z == t.latency + Latency[l]
<1>3. x \in Nat /\ y \in Nat /\ z \in Nat
    BY <1>1, <1>2
<1>4. Count(t, l) = [t EXCEPT !.requests = x, !.errors = y, !.latency = z]
    BY DEF Count
<1> HIDE DEF x, y, z
<1>5. /\ Count(t, l) \in TallyType
      /\ Count(t, l).requests = x /\ Count(t, l).errors = y /\ Count(t, l).latency = z
    BY <1>3, <1>4 DEF TallyType
<1>6. QED
    BY <1>1, <1>5 DEF x, y, z

LEMMA ApplyIs ==
    ASSUME NEW b \in BucketType, NEW l \in Logs
    PROVE  /\ Apply(b, l) \in BucketType
           /\ Apply(b, l).requests = b.requests + 1
           /\ Apply(b, l).errors = b.errors + ErrorOf(l)
           /\ Apply(b, l).latency = b.latency + Latency[l]
           /\ \A d \in Dims, n \in Names :
                Apply(b, l).by[d][n] = IF n = Attr[l][d] THEN Count(b.by[d][n], l) ELSE b.by[d][n]
<1>1. ErrorOf(l) \in Nat /\ Latency[l] \in Nat
    BY StatisticsAssumption DEF ErrorOf
<1> DEFINE By == CountBy(b.by, l)
<1>2. b.by \in [Dims -> [Names -> TallyType]] /\ \A d \in Dims : Attr[l][d] \in Names
    BY StatisticsAssumption DEF BucketType
<1>3. \A d \in Dims, n \in Names :
          /\ By[d][n] = IF n = Attr[l][d] THEN Count(b.by[d][n], l) ELSE b.by[d][n]
          /\ By[d][n] \in TallyType
  <2> SUFFICES ASSUME NEW d \in Dims, NEW n \in Names
               PROVE  /\ By[d][n] = IF n = Attr[l][d] THEN Count(b.by[d][n], l) ELSE b.by[d][n]
                      /\ By[d][n] \in TallyType
      OBVIOUS
  <2>1. b.by[d] \in [Names -> TallyType] /\ b.by[d][n] \in TallyType
      BY <1>2
  <2>2. By[d][n] = IF n = Attr[l][d] THEN Count(b.by[d][n], l) ELSE b.by[d][n]
      BY <2>1 DEF CountBy
  <2>3. Count(b.by[d][n], l) \in TallyType
      BY <2>1, CountIs
  <2>4. QED
      BY <2>1, <2>2, <2>3
<1>4. By \in [Dims -> [Names -> TallyType]]
  <2>1. \A d \in Dims : By[d] \in [Names -> TallyType]
    <3> SUFFICES ASSUME NEW d \in Dims PROVE By[d] \in [Names -> TallyType]
        OBVIOUS
    <3>1. b.by[d] \in [Names -> TallyType]
        BY <1>2
    <3>2. By[d] = [n \in Names |-> By[d][n]]
        BY <3>1 DEF CountBy
    <3>3. \A n \in Names : By[d][n] \in TallyType
        BY <1>3
    <3> HIDE DEF By
    <3>4. QED
        BY <3>2, <3>3
  <2>2. QED
      BY <2>1 DEF CountBy
<1> HIDE DEF By
<1>5. b.requests \in Nat /\ b.errors \in Nat /\ b.latency \in Nat
    BY DEF BucketType
<1> DEFINE x == b.requests + 1
           y == b.errors + ErrorOf(l)
           z == b.latency + Latency[l]
<1>6. x \in Nat /\ y \in Nat /\ z \in Nat
    BY <1>1, <1>5
<1>7. Apply(b, l) = [b EXCEPT !.requests = x, !.errors = y, !.latency = z, !.by = By]
    BY DEF Apply, By
<1> HIDE DEF x, y, z
<1>8. /\ Apply(b, l) \in BucketType /\ Apply(b, l).requests = x
      /\ Apply(b, l).errors = y /\ Apply(b, l).latency = z /\ Apply(b, l).by = By
  <2> DEFINE BT == [Dims -> [Names -> TallyType]]
  <2>1. b \in [requests : Nat, errors : Nat, latency : Nat, by : BT] /\ By \in BT
      BY <1>4 DEF BucketType
  <2> HIDE DEF BT
  <2>2. /\ Apply(b, l) \in [requests : Nat, errors : Nat, latency : Nat, by : BT]
        /\ Apply(b, l).requests = x /\ Apply(b, l).errors = y
        /\ Apply(b, l).latency = z /\ Apply(b, l).by = By
      BY <1>6, <1>7, <2>1
  <2>3. QED
      BY <2>2 DEF BucketType, BT
<1>9. QED
    BY <1>3, <1>8 DEF x, y, z

LEMMA EmptyBucket ==
    /\ Bucket \in BucketType /\ Bucket.requests = 0 /\ Bucket.errors = 0 /\ Bucket.latency = 0
    /\ \A d \in Dims, n \in Names : Bucket.by[d][n] = Tally
<1>1. Tally \in TallyType
    BY DEF Tally, TallyType
<1> HIDE DEF Tally
<1>2. [d \in Dims |-> [n \in Names |-> Tally]] \in [Dims -> [Names -> TallyType]]
    BY <1>1
<1>3. QED
    BY <1>2 DEF Bucket, BucketType

\* What one record does to a bucket.
LEMMA RecordedIs ==
    ASSUME hourly \in [Hours -> BucketType], NEW l \in Logs
    PROVE  /\ Recorded(hourly, l) \in [Hours -> BucketType]
           /\ \A h \in Hours :
                Recorded(hourly, l)[h] = IF StartOf(h) < now - Retention THEN Bucket
                                         ELSE IF h = BucketOf(At[l]) THEN Apply(hourly[h], l)
                                         ELSE hourly[h]
<1> DEFINE b == BucketOf(At[l])
           after == [hourly EXCEPT ![b] = Apply(@, l)]
<1>1. b \in Hours
    BY BucketOfLog
<1> HIDE DEF b
<1>2. Apply(hourly[b], l) \in BucketType
    BY <1>1, ApplyIs
<1>3. after \in [Hours -> BucketType]
      /\ \A h \in Hours : after[h] = IF h = b THEN Apply(hourly[h], l) ELSE hourly[h]
    BY <1>1, <1>2
<1>4. Recorded(hourly, l) = [h \in Hours |-> IF StartOf(h) < now - Retention THEN Bucket ELSE after[h]]
    BY DEF Recorded, Prune, b
<1> HIDE DEF after
<1>5. Bucket \in BucketType
    BY EmptyBucket
<1>6. QED
    BY <1>3, <1>4, <1>5 DEF b

\* The number of requests in a bucket after a record.
LEMMA RecordedRequests ==
    ASSUME hourly \in [Hours -> BucketType], NEW l \in Logs, NEW h \in Hours
    PROVE  /\ hourly[h].requests \in Nat /\ Recorded(hourly, l)[h].requests \in Nat
           /\ h # BucketOf(At[l]) => Recorded(hourly, l)[h].requests <= hourly[h].requests
           /\ Recorded(hourly, l)[h].requests <= hourly[h].requests + 1
           /\ ~(StartOf(h) < now - Retention) =>
                Recorded(hourly, l)[h].requests = hourly[h].requests
                                                + (IF h = BucketOf(At[l]) THEN 1 ELSE 0)
<1>1. hourly[h] \in BucketType /\ Recorded(hourly, l)[h] \in BucketType
    BY RecordedIs
<1>2. hourly[h].requests \in Nat /\ Recorded(hourly, l)[h].requests \in Nat
    BY <1>1 DEF BucketType
<1>3. Apply(hourly[h], l).requests = hourly[h].requests + 1 /\ Bucket.requests = 0
    BY <1>1, ApplyIs, EmptyBucket
<1>4. QED
    BY <1>2, <1>3, RecordedIs

-----------------------------------------------------------------------------
(***************************************************************************)
(* The inductive invariant.                                                *)
(***************************************************************************)
Since == Start - Retention
Stages == {"page", "rows", "done", "failed"}
BackfillType == [at : Stages, since : {Since}, offset : Nat, rest : SUBSET Logs, short : BOOLEAN]

Offset == backfill.offset
Rest == backfill.rest

Types ==
    /\ now \in Nat /\ Start <= now
    /\ rows \in SUBSET Logs
    /\ meanwhile \in SUBSET Logs
    /\ hourly \in [Hours -> BucketType]
    /\ backfill \in BackfillType

\* The rows: while the backfill runs, the table grows by the rows of meanwhile.
\* The row to be recorded next is one the collector has inserted.
RowsKnown ==
    /\ Earlier \subseteq rows /\ meanwhile \subseteq rows \ Earlier
    /\ Backfilling => rows \ Earlier = meanwhile
    /\ inserted = Nothing \/ inserted \in rows \ Earlier
    /\ \A l \in rows : At[l] <= now

\* The page: what is left of it are rows of the window, and as long as nothing
\* has been inserted they have the places of this page.
PageKnown ==
    /\ backfill.at # "rows" => Rest = {}
    /\ \A l \in Rest : l \in rows /\ At[l] >= Since
    /\ meanwhile = {} => \A l \in Rest : Newer(l) < Offset + Page

\* A row the backfill may still come to.
Pending(l) ==
    \/ backfill.at \in {"page", "failed"} /\ Newer(l) >= Offset
    \/ backfill.at = "rows" /\ l \in Rest
    \/ backfill.at = "rows" /\ ~backfill.short /\ Newer(l) >= Offset + Page

\* The rows that have certainly been recorded: those the collector is done with,
\* and those in the window that the backfill has passed.
Certain == {l \in rows \ {inserted} : l \notin Earlier \/ (At[l] >= Since /\ ~Pending(l))}
CertainIn(h) == {l \in Certain : BucketOf(At[l]) = h}

AllCounted ==
    \A h \in Hours : StartOf(h) >= now - Retention
                     => hourly[h].requests >= Cardinality(CertainIn(h))

\* With the table to itself the backfill counts nothing twice.
Undisturbed == meanwhile = {} /\ backfill.at # "failed"
CountedOnce ==
    Undisturbed => \A h \in Hours : hourly[h].requests <= Cardinality(CertainIn(h))

\* A bound on all that is counted: the rows of the collector, and as many as the
\* pages had room for.
Recordings == Cardinality((rows \ Earlier) \ {inserted})
Counted == SumOf(Requests(hourly), Hours)
PagesBound ==
    /\ Counted + Cardinality(Rest) <= Cardinality(Earlier) + Cardinality(meanwhile) + Recordings
    /\ backfill.at = "page" => Counted <= Offset + Recordings
    /\ backfill.at = "rows" => Counted + Cardinality(Rest) <= Offset + Page + Recordings

\* The breakdowns of a bucket add up to its own numbers.
Balanced(b) ==
    \A d \in Dims : Total(b.by[d]) = [requests |-> b.requests, errors |-> b.errors,
                                      latency |-> b.latency]
AllBalanced == \A h \in Hours : Balanced(hourly[h])

IInv ==
    /\ Types /\ RowsKnown /\ PageKnown
    /\ AllCounted /\ CountedOnce /\ PagesBound /\ AllBalanced

-----------------------------------------------------------------------------
LEMMA Constants ==
    /\ Since \in Int /\ Start \in Nat /\ Retention \in Nat /\ Page \in Nat /\ Page > 0
    /\ End \in Nat /\ Start <= End /\ Hour \in Nat \ {0} /\ HoursPerDay \in Nat \ {0}
    /\ Earlier \in SUBSET Logs /\ IsFiniteSet(Earlier) /\ Nothing \notin Logs
    /\ \A l \in Earlier : At[l] <= Start
<1>1. Earlier \in SUBSET Logs
    BY StatisticsAssumption
<1>2. IsFiniteSet(Earlier)
    BY <1>1, StatisticsAssumption, FS_Subset
<1>3. Start \in Nat /\ Start <= End /\ Since \in Int
    BY StatisticsAssumption DEF Times, Since
<1>4. QED
    BY <1>1, <1>2, <1>3, StatisticsAssumption

LEMMA BackfillFields ==
    ASSUME backfill \in BackfillType
    PROVE  /\ Offset \in Nat /\ Rest \in SUBSET Logs /\ backfill.since = Since
           /\ backfill.at \in Stages /\ backfill.short \in BOOLEAN
BY DEF BackfillType, Offset, Rest

\* What the steps of the backfill do to its fields.
LEMMA ReadPageIs ==
    ASSUME Types, ReadPage
    PROVE  /\ backfill.at = "page"
           /\ Offset' = Offset /\ Rest' = PageAt(Since, Offset)
           /\ backfill'.at = IF PageAt(Since, Offset) = {} THEN "done" ELSE "rows"
           /\ backfill'.short = (Cardinality(PageAt(Since, Offset)) < Page)
           /\ UNCHANGED <<now, rows, hourly, inserted, meanwhile>>
           /\ Types'
<1> DEFINE page == PageAt(Since, Offset)
           at == IF page = {} THEN "done" ELSE "rows"
           short == Cardinality(page) < Page
<1>1. backfill.at = "page" /\ UNCHANGED <<now, rows, hourly, inserted, meanwhile>>
    BY DEF ReadPage
<1>2. backfill' = [backfill EXCEPT !.at = at, !.rest = page, !.short = short]
    BY BackfillFields DEF ReadPage, Types, Offset
<1>3. page \in SUBSET Logs /\ at \in Stages /\ short \in BOOLEAN
    BY DEF PageAt, Types, Stages
<1>4. backfill \in BackfillType
    BY DEF Types
<1> HIDE DEF page, at, short
<1> DEFINE Logss == SUBSET Logs
<1>5. page \in Logss /\ backfill \in [at : Stages, since : {Since}, offset : Nat, rest : Logss, short : BOOLEAN]
    BY <1>3, <1>4 DEF BackfillType
<1> HIDE DEF Logss
<1>6. /\ backfill' \in [at : Stages, since : {Since}, offset : Nat, rest : Logss, short : BOOLEAN]
      /\ backfill'.at = at /\ backfill'.rest = page /\ backfill'.short = short
      /\ backfill'.offset = backfill.offset
    BY <1>2, <1>3, <1>5
<1>7. backfill' \in BackfillType
    BY <1>6 DEF BackfillType, Logss
<1>8. Types'
    BY <1>1, <1>7 DEF Types, BackfillType
<1>9. QED
    BY <1>1, <1>6, <1>8 DEF page, at, short, Offset, Rest

LEMMA BackfillRecordsIs ==
    ASSUME Types, BackfillRecords
    PROVE  /\ backfill.at = "rows"
           /\ \E l \in Rest : Rest' = Rest \ {l} /\ hourly' = Recorded(hourly, l)
           /\ Offset' = Offset /\ backfill'.at = "rows" /\ backfill'.short = backfill.short
           /\ UNCHANGED <<now, rows, inserted, meanwhile>>
           /\ Types'
<1>1. backfill.at = "rows" /\ UNCHANGED <<now, rows, inserted, meanwhile>>
    BY DEF BackfillRecords
<1>2. PICK l \in Rest : hourly' = Recorded(hourly, l) /\ backfill' = [backfill EXCEPT !.rest = @ \ {l}]
    BY DEF BackfillRecords, Rest
<1> DEFINE rest == Rest \ {l}
<1>3. backfill \in BackfillType /\ Rest \in SUBSET Logs /\ rest \in SUBSET Logs
    BY BackfillFields DEF Types
<1>4. backfill' = [backfill EXCEPT !.rest = rest]
    BY <1>2 DEF Rest
<1> HIDE DEF rest
<1>5. /\ backfill' \in BackfillType /\ backfill'.rest = rest /\ backfill'.at = backfill.at
      /\ backfill'.offset = backfill.offset /\ backfill'.short = backfill.short
    BY <1>3, <1>4 DEF BackfillType
<1>6. hourly' \in [Hours -> BucketType]
    BY <1>2, <1>3, RecordedIs DEF Types
<1>7. Types'
    BY <1>1, <1>5, <1>6 DEF Types, BackfillType
<1>8. QED
    BY <1>1, <1>2, <1>5, <1>7 DEF rest, Rest, Offset

LEMMA PageDoneIs ==
    ASSUME Types, PageDone
    PROVE  /\ backfill.at = "rows" /\ Rest = {} /\ Rest' = {}
           /\ \/ backfill.short /\ backfill'.at = "done" /\ Offset' = Offset
              \/ ~backfill.short /\ backfill'.at = "page" /\ Offset' = Offset + Page
           /\ UNCHANGED <<now, rows, hourly, inserted, meanwhile>>
           /\ Types'
<1>1. /\ backfill.at = "rows" /\ Rest = {}
      /\ UNCHANGED <<now, rows, hourly, inserted, meanwhile>>
    BY DEF PageDone, Rest
<1>2. backfill \in BackfillType /\ Offset \in Nat /\ Page \in Nat
    BY BackfillFields, Constants DEF Types
<1>3. CASE backfill.short
  <2>1. backfill' = [backfill EXCEPT !.at = "done"] /\ "done" \in Stages
      BY <1>3 DEF PageDone, Stages
  <2>2. /\ backfill' \in BackfillType /\ backfill'.at = "done"
        /\ backfill'.rest = backfill.rest /\ backfill'.offset = backfill.offset
      BY <1>2, <2>1 DEF BackfillType
  <2>3. Types'
      BY <1>1, <2>2 DEF Types, BackfillType
  <2>4. QED
      BY <1>1, <1>3, <2>2, <2>3 DEF Rest, Offset
<1>4. CASE ~backfill.short
  <2> DEFINE o == Offset + Page
  <2>1. backfill' = [backfill EXCEPT !.at = "page", !.offset = o] /\ "page" \in Stages
      BY <1>4 DEF PageDone, Stages, Offset
  <2>2. o \in Nat
      BY <1>2
  <2> HIDE DEF o
  <2>3. /\ backfill' \in BackfillType /\ backfill'.at = "page"
        /\ backfill'.rest = backfill.rest /\ backfill'.offset = o
      BY <1>2, <2>1, <2>2 DEF BackfillType
  <2>4. Types'
      BY <1>1, <2>3 DEF Types, BackfillType
  <2>5. QED
      BY <1>1, <1>4, <2>3, <2>4 DEF Rest, Offset, o
<1>5. QED
    BY <1>3, <1>4

LEMMA BackfillFailsIs ==
    ASSUME Types, BackfillFails
    PROVE  /\ backfill.at = "page" /\ backfill'.at = "failed"
           /\ Offset' = Offset /\ Rest' = Rest
           /\ UNCHANGED <<now, rows, hourly, inserted, meanwhile>>
           /\ Types'
<1>1. /\ backfill.at = "page" /\ backfill' = [backfill EXCEPT !.at = "failed"]
      /\ UNCHANGED <<now, rows, hourly, inserted, meanwhile>>
    BY DEF BackfillFails
<1>2. backfill \in BackfillType /\ "failed" \in Stages
    BY DEF Types, Stages
<1>3. /\ backfill' \in BackfillType /\ backfill'.at = "failed"
      /\ backfill'.rest = backfill.rest /\ backfill'.offset = backfill.offset
    BY <1>1, <1>2 DEF BackfillType
<1>4. Types'
    BY <1>1, <1>3 DEF Types, BackfillType
<1>5. QED
    BY <1>1, <1>3, <1>4 DEF Rest, Offset

-----------------------------------------------------------------------------
(***************************************************************************)
(* How the parts of the invariant follow, for a step that records no row   *)
(* and for one that records the row l.                                     *)
(***************************************************************************)

LEMMA CertainFinite ==
    ASSUME Types, NEW h
    PROVE  /\ Certain \in SUBSET rows /\ IsFiniteSet(CertainIn(h)) /\ Cardinality(CertainIn(h)) \in Nat
<1>1. Certain \in SUBSET rows
    BY DEF Certain
<1>2. CertainIn(h) \in SUBSET rows
    BY <1>1 DEF CertainIn
<1>3. QED
    BY <1>1, <1>2, Rows DEF Types

LEMMA QuietCounted ==
    ASSUME Types, AllCounted, Types', hourly' = hourly, now' >= now, Certain' \subseteq Certain
    PROVE  AllCounted'
<1> SUFFICES ASSUME NEW h \in Hours, StartOf(h) >= now' - Retention
             PROVE  hourly'[h].requests >= Cardinality(CertainIn(h)')
    BY DEF AllCounted
<1>1. StartOf(h) \in Nat /\ now \in Nat /\ now' \in Nat /\ Retention \in Nat
    BY HourNat, Constants DEF Types
<1>2. StartOf(h) >= now - Retention
    BY <1>1
<1>3. hourly[h].requests >= Cardinality(CertainIn(h))
    BY <1>2 DEF AllCounted
<1>4. CertainIn(h)' \in SUBSET CertainIn(h)
    BY DEF CertainIn
<1>5. IsFiniteSet(CertainIn(h)) /\ Cardinality(CertainIn(h)) \in Nat
    BY CertainFinite
<1>6. Cardinality(CertainIn(h)') <= Cardinality(CertainIn(h)) /\ Cardinality(CertainIn(h)') \in Nat
    BY <1>4, <1>5, FS_Subset, FS_CardinalityType
<1>7. hourly[h].requests \in Nat
    BY DEF Types, BucketType
<1>8. QED
    BY <1>3, <1>5, <1>6, <1>7

LEMMA RecordCounted ==
    ASSUME Types, AllCounted, Types', NEW l \in Logs, hourly' = Recorded(hourly, l), now' = now,
           Certain' \subseteq Certain \cup {l}
    PROVE  AllCounted'
<1> SUFFICES ASSUME NEW h \in Hours, StartOf(h) >= now - Retention
             PROVE  hourly'[h].requests >= Cardinality(CertainIn(h)')
    BY DEF AllCounted
<1>1. ~(StartOf(h) < now - Retention)
  <2>1. StartOf(h) \in Nat /\ now \in Nat /\ Retention \in Nat
      BY HourNat, Constants DEF Types
  <2>2. QED
      BY <2>1
<1> DEFINE b == BucketOf(At[l])
           before == CertainIn(h)
           after == CertainIn(h)'
<1>2. hourly[h].requests >= Cardinality(before)
    BY DEF AllCounted
<1>3. IsFiniteSet(before) /\ Cardinality(before) \in Nat
    BY CertainFinite
<1>4. /\ hourly'[h].requests = hourly[h].requests + (IF h = b THEN 1 ELSE 0)
      /\ hourly[h].requests \in Nat
    BY <1>1, RecordedRequests DEF Types
<1>5. CASE h = b
  <2>1. after \in SUBSET (before \cup {l})
      BY DEF CertainIn
  <2> HIDE DEF before, after
  <2>2. IsFiniteSet(before \cup {l}) /\ Cardinality(before \cup {l}) <= Cardinality(before) + 1
      BY <1>3, FS_AddElement
  <2>3. /\ Cardinality(after) <= Cardinality(before \cup {l}) /\ Cardinality(before \cup {l}) \in Nat
        /\ Cardinality(after) \in Nat
      BY <2>1, <2>2, FS_Subset, FS_CardinalityType
  <2>4. hourly'[h].requests >= Cardinality(after)
      BY <1>2, <1>3, <1>4, <1>5, <2>2, <2>3
  <2>5. QED
      BY <2>4 DEF after
<1>6. CASE h # b
  <2>1. after \in SUBSET before
      BY <1>6 DEF CertainIn
  <2> HIDE DEF before, after
  <2>2. Cardinality(after) <= Cardinality(before) /\ Cardinality(after) \in Nat
      BY <1>3, <2>1, FS_Subset, FS_CardinalityType
  <2>3. hourly'[h].requests >= Cardinality(after)
      BY <1>2, <1>3, <1>4, <1>6, <2>2
  <2>4. QED
      BY <2>3 DEF after
<1>7. QED
    BY <1>5, <1>6

LEMMA QuietOnce ==
    ASSUME Types, CountedOnce, Types', hourly' = hourly,
           Undisturbed' => Undisturbed /\ Certain \subseteq Certain'
    PROVE  CountedOnce'
<1> SUFFICES ASSUME Undisturbed', NEW h \in Hours
             PROVE  hourly'[h].requests <= Cardinality(CertainIn(h)')
    BY DEF CountedOnce
<1>1. hourly[h].requests <= Cardinality(CertainIn(h))
    BY DEF CountedOnce
<1>2. CertainIn(h) \in SUBSET CertainIn(h)'
    BY DEF CertainIn
<1>3. IsFiniteSet(CertainIn(h)') /\ Cardinality(CertainIn(h)') \in Nat
  <2>1. CertainIn(h)' \in SUBSET Logs
      BY DEF CertainIn, Certain, Types
  <2>2. QED
      BY <2>1, StatisticsAssumption, FS_Subset, FS_CardinalityType
<1>4. Cardinality(CertainIn(h)) <= Cardinality(CertainIn(h)') /\ Cardinality(CertainIn(h)) \in Nat
    BY <1>2, <1>3, FS_Subset, CertainFinite
<1>5. hourly[h].requests \in Nat
    BY DEF Types, BucketType
<1>6. QED
    BY <1>1, <1>3, <1>4, <1>5

LEMMA RecordOnce ==
    ASSUME Types, CountedOnce, Types', NEW l \in Logs, hourly' = Recorded(hourly, l),
           Undisturbed' => Undisturbed /\ l \notin Certain /\ Certain \cup {l} \subseteq Certain'
    PROVE  CountedOnce'
<1> SUFFICES ASSUME Undisturbed', NEW h \in Hours
             PROVE  hourly'[h].requests <= Cardinality(CertainIn(h)')
    BY DEF CountedOnce
<1> DEFINE b == BucketOf(At[l])
           before == CertainIn(h)
           after == CertainIn(h)'
<1>1. hourly[h].requests <= Cardinality(before)
    BY DEF CountedOnce
<1>2. IsFiniteSet(after) /\ Cardinality(after) \in Nat
  <2>1. CertainIn(h)' \in SUBSET Logs
      BY DEF CertainIn, Certain, Types
  <2>2. QED
      BY <2>1, StatisticsAssumption, FS_Subset, FS_CardinalityType
<1>3. IsFiniteSet(before) /\ Cardinality(before) \in Nat
    BY CertainFinite
<1>4. /\ hourly[h].requests \in Nat /\ hourly'[h].requests \in Nat
      /\ h # b => hourly'[h].requests <= hourly[h].requests
      /\ hourly'[h].requests <= hourly[h].requests + 1
    BY RecordedRequests DEF Types
<1>5. CASE h = b
  <2>1. before \cup {l} \in SUBSET after /\ l \notin before
      BY <1>5 DEF CertainIn
  <2> HIDE DEF before, after
  <2>2. Cardinality(before \cup {l}) = Cardinality(before) + 1
      BY <1>3, <2>1, FS_AddElement
  <2>3. Cardinality(before \cup {l}) <= Cardinality(after)
      BY <1>2, <2>1, FS_Subset
  <2>4. hourly'[h].requests <= Cardinality(after)
      BY <1>1, <1>2, <1>3, <1>4, <2>2, <2>3
  <2>5. QED
      BY <2>4 DEF after
<1>6. CASE h # b
  <2>1. before \in SUBSET after
      BY DEF CertainIn
  <2> HIDE DEF before, after
  <2>2. Cardinality(before) <= Cardinality(after)
      BY <1>2, <2>1, FS_Subset
  <2>3. hourly'[h].requests <= Cardinality(after)
      BY <1>1, <1>2, <1>3, <1>4, <1>6, <2>2
  <2>4. QED
      BY <2>3 DEF after
<1>7. QED
    BY <1>5, <1>6

\* A record counts at most one request more.
LEMMA RecordCount ==
    ASSUME Types, Types', NEW l \in Logs, hourly' = Recorded(hourly, l)
    PROVE  Counted' <= Counted + 1 /\ Counted \in Nat /\ Counted' \in Nat
<1> DEFINE f == Requests(hourly)
           e == Requests(hourly')
           b == BucketOf(At[l])
<1>1. DOMAIN hourly = Hours /\ DOMAIN hourly' = Hours
    BY DEF Types
<1>2. \A h \in Hours : f[h] = hourly[h].requests /\ e[h] = hourly'[h].requests
    BY <1>1 DEF Requests
<1>3. b \in Hours
    BY BucketOfLog
<1>4. \A h \in Hours : /\ hourly[h].requests \in Nat /\ hourly'[h].requests \in Nat
                       /\ h # b => hourly'[h].requests <= hourly[h].requests
                       /\ hourly'[h].requests <= hourly[h].requests + 1
    BY RecordedRequests DEF Types
<1>5. Counted = SumOf(f, Hours) /\ Counted' = SumOf(e, Hours)
    BY DEF Counted
<1>6. /\ \A h \in Hours : f[h] \in Nat /\ e[h] \in Nat
      /\ e[b] <= f[b] + 1 /\ \A h \in Hours \ {b} : e[h] <= f[h]
    BY <1>2, <1>3, <1>4
<1> HIDE DEF f, e, b
<1>7. SumOf(e, Hours) <= SumOf(f, Hours) + 1
    BY <1>3, <1>6, FiniteSets, SumAtMostOneMore
<1>8. SumOf(e, Hours) \in Nat /\ SumOf(f, Hours) \in Nat
    BY <1>6, FiniteSets, SumNat
<1>9. QED
    BY <1>5, <1>7, <1>8

\* The numbers of a breakdown.
LEMMA BreakdownNumbers ==
    ASSUME NEW T \in [Names -> TallyType]
    PROVE  /\ DOMAIN T = Names /\ Numeric(T)
           /\ \A n \in Names : /\ Requests(T)[n] = T[n].requests /\ T[n].requests \in Nat
                               /\ Errors(T)[n] = T[n].errors /\ T[n].errors \in Nat
                               /\ Latencies(T)[n] = T[n].latency /\ T[n].latency \in Nat
<1>1. \A n \in Names : T[n].requests \in Nat /\ T[n].errors \in Nat /\ T[n].latency \in Nat
    BY DEF TallyType
<1>2. QED
    BY <1>1 DEF Numeric, Requests, Errors, Latencies

LEMMA BreakdownTotal ==
    ASSUME NEW T \in [Names -> TallyType]
    PROVE  Total(T) = [requests |-> SumOf(Requests(T), Names),
                       errors   |-> SumOf(Errors(T), Names),
                       latency  |-> SumOf(Latencies(T), Names)]
<1>1. DOMAIN T = Names /\ Numeric(T)
    BY BreakdownNumbers
<1>2. IsFiniteSet(DOMAIN T)
    BY <1>1, FiniteSets
<1>3. QED
    BY <1>1, <1>2, TotalType

LEMMA EmptyBalanced == Balanced(Bucket)
<1> SUFFICES ASSUME NEW d \in Dims
             PROVE  Total(Bucket.by[d]) = [requests |-> 0, errors |-> 0, latency |-> 0]
    BY EmptyBucket DEF Balanced
<1> DEFINE T == Bucket.by[d]
<1>1. T \in [Names -> TallyType]
    BY EmptyBucket DEF BucketType
<1>2. \A n \in Names : T[n].requests = 0 /\ T[n].errors = 0 /\ T[n].latency = 0
    BY EmptyBucket DEF Tally
<1> HIDE DEF T
<1>3. \A n \in Names : Requests(T)[n] = 0 /\ Errors(T)[n] = 0 /\ Latencies(T)[n] = 0
    BY <1>1, <1>2, BreakdownNumbers
<1>4. SumOf(Requests(T), Names) = 0 /\ SumOf(Errors(T), Names) = 0 /\ SumOf(Latencies(T), Names) = 0
    BY <1>3, FiniteSets, SumZero
<1>5. Total(T) = [requests |-> 0, errors |-> 0, latency |-> 0]
    BY <1>1, <1>4, BreakdownTotal
<1>6. QED
    BY <1>5 DEF T

LEMMA ApplyBalanced ==
    ASSUME NEW b \in BucketType, NEW l \in Logs, Balanced(b)
    PROVE  Balanced(Apply(b, l))
<1> SUFFICES ASSUME NEW d \in Dims
             PROVE  Total(Apply(b, l).by[d]) = [requests |-> Apply(b, l).requests,
                                                errors |-> Apply(b, l).errors,
                                                latency |-> Apply(b, l).latency]
    BY DEF Balanced
<1> DEFINE T == b.by[d]
           U == Apply(b, l).by[d]
           c == Attr[l][d]
<1>1. T \in [Names -> TallyType] /\ U \in [Names -> TallyType] /\ c \in Names
  <2>1. Apply(b, l) \in BucketType
      BY ApplyIs
  <2>2. QED
      BY <2>1, StatisticsAssumption DEF BucketType
<1>2. \A n \in Names : U[n] = IF n = c THEN Count(T[n], l) ELSE T[n]
    BY ApplyIs
<1>3. Total(T) = [requests |-> b.requests, errors |-> b.errors, latency |-> b.latency]
    BY DEF Balanced
<1>4. /\ Apply(b, l).requests = b.requests + 1 /\ Apply(b, l).errors = b.errors + ErrorOf(l)
      /\ Apply(b, l).latency = b.latency + Latency[l]
    BY ApplyIs
<1> HIDE DEF T, U, c
<1>5. T[c] \in TallyType
    BY <1>1
<1>6. /\ U[c].requests = T[c].requests + 1 /\ U[c].errors = T[c].errors + ErrorOf(l)
      /\ U[c].latency = T[c].latency + Latency[l] /\ ErrorOf(l) \in Nat /\ Latency[l] \in Nat
    BY <1>1, <1>2, <1>5, CountIs
<1>7. \A n \in Names \ {c} : U[n] = T[n]
    BY <1>2
<1>8. /\ \A n \in Names : Requests(T)[n] \in Nat /\ Requests(U)[n] \in Nat
      /\ \A n \in Names : Errors(T)[n] \in Nat /\ Errors(U)[n] \in Nat
      /\ \A n \in Names : Latencies(T)[n] \in Nat /\ Latencies(U)[n] \in Nat
    BY <1>1, BreakdownNumbers
<1>9. /\ Requests(U)[c] = Requests(T)[c] + 1
      /\ Errors(U)[c] = Errors(T)[c] + ErrorOf(l)
      /\ Latencies(U)[c] = Latencies(T)[c] + Latency[l]
    BY <1>1, <1>6, BreakdownNumbers
<1>10. /\ \A n \in Names \ {c} : Requests(U)[n] = Requests(T)[n]
       /\ \A n \in Names \ {c} : Errors(U)[n] = Errors(T)[n]
       /\ \A n \in Names \ {c} : Latencies(U)[n] = Latencies(T)[n]
    BY <1>1, <1>7, BreakdownNumbers
<1>11. SumOf(Requests(U), Names) = SumOf(Requests(T), Names) + 1
    BY <1>1, <1>8, <1>9, <1>10, FiniteSets, SumUpdate
<1>12. SumOf(Errors(U), Names) = SumOf(Errors(T), Names) + ErrorOf(l)
    BY <1>1, <1>6, <1>8, <1>9, <1>10, FiniteSets, SumUpdate
<1>13. SumOf(Latencies(U), Names) = SumOf(Latencies(T), Names) + Latency[l]
    BY <1>1, <1>6, <1>8, <1>9, <1>10, FiniteSets, SumUpdate
<1>14. /\ SumOf(Requests(T), Names) = b.requests /\ SumOf(Errors(T), Names) = b.errors
       /\ SumOf(Latencies(T), Names) = b.latency
    BY <1>1, <1>3, BreakdownTotal
<1>15. Total(U) = [requests |-> Apply(b, l).requests, errors |-> Apply(b, l).errors,
                   latency |-> Apply(b, l).latency]
    BY <1>1, <1>4, <1>11, <1>12, <1>13, <1>14, BreakdownTotal
<1>16. QED
    BY <1>15 DEF U

LEMMA RecordBalanced ==
    ASSUME Types, AllBalanced, NEW l \in Logs, hourly' = Recorded(hourly, l)
    PROVE  AllBalanced'
<1> SUFFICES ASSUME NEW h \in Hours PROVE Balanced(hourly'[h])
    BY DEF AllBalanced
<1>1. hourly'[h] = IF StartOf(h) < now - Retention THEN Bucket
                   ELSE IF h = BucketOf(At[l]) THEN Apply(hourly[h], l) ELSE hourly[h]
    BY RecordedIs DEF Types
<1>2. hourly[h] \in BucketType /\ Balanced(hourly[h])
    BY DEF Types, AllBalanced
<1>3. Balanced(Apply(hourly[h], l)) /\ Balanced(Bucket)
    BY <1>2, ApplyBalanced, EmptyBalanced
<1>4. QED
    BY <1>1, <1>2, <1>3

-----------------------------------------------------------------------------
(***************************************************************************)
(* Every step keeps the invariant.                                         *)
(***************************************************************************)

LEMMA FiniteRows ==
    ASSUME NEW S \in SUBSET Logs
    PROVE  IsFiniteSet(S) /\ Cardinality(S) \in Nat
BY StatisticsAssumption, FS_Subset, FS_CardinalityType

LEMMA CountedNat == ASSUME Types PROVE Counted \in Nat
<1>1. \A h \in Hours : Requests(hourly)[h] \in Nat
    BY DEF Types, Requests, BucketType
<1>2. QED
    BY <1>1, FiniteSets, SumNat DEF Counted

LEMMA InitInv == Init => IInv
<1> SUFFICES ASSUME Init PROVE IInv
    OBVIOUS
<1>1. /\ now = Start /\ rows = Earlier /\ hourly = [h \in Hours |-> Bucket]
      /\ inserted = Nothing /\ meanwhile = {}
      /\ backfill = [at |-> "page", since |-> Since, offset |-> 0, rest |-> {}, short |-> FALSE]
    BY DEF Init, Since
<1>2. backfill.at = "page" /\ Offset = 0 /\ Rest = {}
    BY <1>1 DEF Offset, Rest
<1>3. Types
  <2>1. backfill \in BackfillType
      BY <1>1 DEF BackfillType, Stages
  <2>2. hourly \in [Hours -> BucketType]
      BY <1>1, EmptyBucket
  <2>3. QED
      BY <1>1, <2>1, <2>2, Constants DEF Types
<1>4. RowsKnown
    BY <1>1, Constants DEF RowsKnown
<1>5. PageKnown
    BY <1>2 DEF PageKnown
<1>6. Certain = {}
  <2>1. \A l \in rows : l \in Logs /\ Newer(l) \in Nat
      BY <1>3, NewerIs DEF Types
  <2>2. \A l \in rows : Newer(l) >= Offset
      BY <1>2, <2>1
  <2>3. QED
      BY <1>1, <1>2, <2>2 DEF Certain, Pending
<1>7. \A h \in Hours : hourly[h].requests = 0 /\ Cardinality(CertainIn(h)) = 0
    BY <1>1, <1>6, EmptyBucket, FS_EmptySet DEF CertainIn
<1>8. AllCounted /\ CountedOnce
    BY <1>7 DEF AllCounted, CountedOnce
<1>9. PagesBound
  <2>1. DOMAIN hourly = Hours
      BY <1>1
  <2>2. \A h \in Hours : Requests(hourly)[h] = 0
      BY <1>7, <2>1 DEF Requests
  <2>3. Counted = 0
      BY <2>2, FiniteSets, SumZero DEF Counted
  <2>4. Cardinality(Earlier) \in Nat /\ Cardinality(meanwhile) \in Nat /\ Recordings \in Nat
      BY <1>3, Constants, FiniteRows DEF Types, Recordings
  <2>5. Cardinality(Rest) = 0
      BY <1>2, FS_EmptySet
  <2>6. QED
      BY <1>2, <2>3, <2>4, <2>5 DEF PagesBound
<1>10. AllBalanced
    BY <1>1, EmptyBalanced DEF AllBalanced
<1>11. QED
    BY <1>3, <1>4, <1>5, <1>8, <1>9, <1>10 DEF IInv

\* A row more makes no row newer.
LEMMA NewerGrows ==
    ASSUME rows \in SUBSET Logs, rows' \in SUBSET Logs, rows \subseteq rows', NEW m \in Logs
    PROVE  Newer(m)' >= Newer(m) /\ Newer(m) \in Nat /\ Newer(m)' \in Nat
<1> DEFINE A == {k \in rows : At[k] > At[m]}
           B == {k \in rows' : At[k] > At[m]}
<1>1. A \in SUBSET B /\ B \in SUBSET Logs /\ A \in SUBSET Logs
    OBVIOUS
<1>2. Newer(m) = Cardinality(A) /\ Newer(m)' = Cardinality(B)
    BY DEF Newer
<1> HIDE DEF A, B
<1>3. IsFiniteSet(B) /\ Cardinality(B) \in Nat /\ Cardinality(A) \in Nat
    BY <1>1, FiniteRows
<1>4. Cardinality(A) <= Cardinality(B)
    BY <1>1, <1>3, FS_Subset
<1>5. QED
    BY <1>2, <1>3, <1>4

LEMMA InsertInv == ASSUME IInv, NEW l \in Logs, Insert(l) PROVE IInv'
<1>1. /\ inserted = Nothing /\ l \notin rows /\ At[l] <= now
      /\ rows' = rows \cup {l} /\ inserted' = l
      /\ meanwhile' = IF Backfilling THEN meanwhile \cup {l} ELSE meanwhile
      /\ now' = now /\ hourly' = hourly /\ backfill' = backfill
    BY DEF Insert
<1>2. Types /\ RowsKnown /\ PageKnown /\ AllCounted /\ CountedOnce /\ PagesBound /\ AllBalanced
    BY DEF IInv
<1>3. Types'
    BY <1>1, <1>2 DEF Types, BackfillType
<1>4. Offset' = Offset /\ Rest' = Rest /\ Backfilling' = Backfilling
    BY <1>1 DEF Offset, Rest, Backfilling
<1>5. l \notin Earlier /\ l \notin meanwhile /\ Nothing \notin rows /\ l # Nothing
    BY <1>1, <1>2, Constants DEF RowsKnown, Types
<1>6. RowsKnown'
    BY <1>1, <1>2, <1>4, <1>5 DEF RowsKnown
<1>7. \A m \in rows : m \in Logs /\ Newer(m)' >= Newer(m) /\ Newer(m) \in Nat /\ Newer(m)' \in Nat
  <2>1. rows \in SUBSET Logs /\ rows' \in SUBSET Logs /\ rows \subseteq rows'
      BY <1>1, <1>2, <1>3 DEF Types
  <2>2. QED
      BY <2>1, NewerGrows
<1>8. Offset \in Nat /\ Page \in Nat /\ Rest \in SUBSET Logs
    BY <1>2, BackfillFields, Constants DEF Types
<1>9. PageKnown'
  <2>1. backfill'.at # "rows" => Rest' = {}
      BY <1>1, <1>2, <1>4 DEF PageKnown
  <2>2. \A m \in Rest' : m \in rows' /\ At[m] >= Since
      BY <1>1, <1>2, <1>4 DEF PageKnown
  <2>3. ASSUME meanwhile' = {} PROVE Rest' = {}
      BY <1>1, <1>2, <1>4, <2>3 DEF PageKnown, Backfilling
  <2>4. QED
      BY <2>1, <2>2, <2>3 DEF PageKnown
<1>10. \A m \in rows : Pending(m) => Pending(m)'
  <2> SUFFICES ASSUME NEW m \in rows, Pending(m) PROVE Pending(m)'
      OBVIOUS
  <2>1. /\ Newer(m) >= Offset => Newer(m)' >= Offset
        /\ Newer(m) >= Offset + Page => Newer(m)' >= Offset + Page
      BY <1>7, <1>8
  <2>2. QED
      BY <1>1, <1>4, <2>1 DEF Pending
<1>11. Certain' \subseteq Certain
    BY <1>1, <1>5, <1>10 DEF Certain
<1>12. AllCounted'
  <2>1. now' >= now
      BY <1>1, <1>2 DEF Types
  <2>2. QED
      BY <1>1, <1>2, <1>3, <1>11, <2>1, QuietCounted
<1>13. CountedOnce'
  <2>1. ASSUME Undisturbed' PROVE Undisturbed /\ Certain \subseteq Certain'
    <3>1. ~Backfilling /\ meanwhile = {} /\ backfill.at # "failed"
        BY <1>1, <2>1 DEF Undisturbed
    <3>2. backfill.at = "done" /\ backfill'.at = "done"
        BY <1>1, <1>2, <3>1, BackfillFields DEF Types, Stages, Backfilling
    <3>3. \A m : ~Pending(m)'
        BY <3>2 DEF Pending
    <3>4. Certain \subseteq Certain'
        BY <1>1, <3>3 DEF Certain
    <3>5. QED
        BY <3>1, <3>4 DEF Undisturbed
  <2>2. QED
      BY <1>1, <1>2, <1>3, <2>1, QuietOnce
<1>14. PagesBound'
  <2>1. (rows' \ Earlier) \ {inserted'} = (rows \ Earlier) \ {inserted}
      BY <1>1, <1>5
  <2>2. Recordings' = Recordings
      BY <2>1 DEF Recordings
  <2>3. Counted' = Counted
      BY <1>1 DEF Counted
  <2>4. Cardinality(meanwhile) <= Cardinality(meanwhile')
    <3>1. meanwhile \in SUBSET meanwhile' /\ meanwhile' \in SUBSET Logs
        BY <1>1, <1>3 DEF Types
    <3>2. QED
        BY <3>1, FiniteRows, FS_Subset
  <2>5. /\ Cardinality(meanwhile) \in Nat /\ Cardinality(meanwhile') \in Nat
        /\ Cardinality(Earlier) \in Nat /\ Cardinality(Rest) \in Nat
      BY <1>2, <1>3, <1>8, Constants, FiniteRows DEF Types
  <2>6. Recordings \in Nat /\ Counted \in Nat
      BY <1>2, FiniteRows, CountedNat DEF Types, Recordings
  <2>7. /\ Counted + Cardinality(Rest) <= Cardinality(Earlier) + Cardinality(meanwhile) + Recordings
      BY <1>2 DEF PagesBound
  <2>8. Counted + Cardinality(Rest) <= Cardinality(Earlier) + Cardinality(meanwhile') + Recordings
      BY <2>4, <2>5, <2>6, <2>7
  <2>9. QED
      BY <1>1, <1>2, <1>4, <2>2, <2>3, <2>8 DEF PagesBound
<1>15. AllBalanced'
    BY <1>1, <1>2 DEF AllBalanced
<1>16. QED
    BY <1>3, <1>6, <1>9, <1>12, <1>13, <1>14, <1>15 DEF IInv

LEMMA OneMore ==
    ASSUME NEW c \in Nat, NEW d \in Nat, d <= c + 1, NEW r \in Nat, NEW s, s = r + 1,
           NEW x \in Nat, NEW y \in Nat, c + x <= y + r
    PROVE  d + x <= y + s
OBVIOUS

LEMMA CollectorInv == ASSUME IInv, CollectorRecords PROVE IInv'
<1> DEFINE l == inserted
<1>1. /\ l # Nothing /\ hourly' = Recorded(hourly, l) /\ inserted' = Nothing
      /\ now' = now /\ rows' = rows /\ backfill' = backfill /\ meanwhile' = meanwhile
    BY DEF CollectorRecords
<1>2. Types /\ RowsKnown /\ PageKnown /\ AllCounted /\ CountedOnce /\ PagesBound /\ AllBalanced
    BY DEF IInv
<1>3. l \in rows \ Earlier /\ l \in Logs /\ Nothing \notin rows
    BY <1>1, <1>2, Constants DEF RowsKnown, Types
<1>4. Types'
  <2>1. hourly' \in [Hours -> BucketType]
      BY <1>1, <1>2, <1>3, RecordedIs DEF Types
  <2>2. QED
      BY <1>1, <1>2, <2>1 DEF Types, BackfillType
<1>5. /\ Offset' = Offset /\ Rest' = Rest /\ Backfilling' = Backfilling
      /\ \A m : Newer(m)' = Newer(m)
    BY <1>1 DEF Offset, Rest, Backfilling, Newer
<1>6. RowsKnown'
    BY <1>1, <1>2, <1>5 DEF RowsKnown
<1>7. PageKnown'
    BY <1>1, <1>2, <1>5 DEF PageKnown
<1>8. \A m : Pending(m)' = Pending(m)
    BY <1>1, <1>5 DEF Pending
<1>9. Certain' = Certain \cup {l} /\ l \notin Certain
    BY <1>1, <1>3, <1>8 DEF Certain
<1>10. AllCounted'
    BY <1>1, <1>2, <1>3, <1>4, <1>9, RecordCounted
<1>11. CountedOnce'
  <2>1. Undisturbed' => Undisturbed /\ l \notin Certain /\ Certain \cup {l} \subseteq Certain'
      BY <1>1, <1>9 DEF Undisturbed
  <2>2. QED
      BY <1>1, <1>2, <1>3, <1>4, <2>1, RecordOnce
<1>12. PagesBound'
  <2> DEFINE R == (rows \ Earlier) \ {l}
  <2>1. (rows' \ Earlier) \ {inserted'} = R \cup {l} /\ l \notin R /\ R \in SUBSET Logs
      BY <1>1, <1>2, <1>3 DEF Types
  <2>2. Recordings' = Cardinality(R \cup {l}) /\ Recordings = Cardinality(R)
      BY <2>1 DEF Recordings
  <2> HIDE DEF R
  <2>3. Recordings' = Recordings + 1 /\ Recordings \in Nat
      BY <2>1, <2>2, FiniteRows, FS_AddElement
  <2>4. Counted' <= Counted + 1 /\ Counted \in Nat /\ Counted' \in Nat
      BY <1>1, <1>2, <1>3, <1>4, RecordCount
  <2>5. /\ Cardinality(meanwhile) \in Nat /\ Cardinality(Earlier) \in Nat
        /\ Cardinality(Rest) \in Nat /\ Offset \in Nat /\ Page \in Nat
      BY <1>2, Constants, FiniteRows, BackfillFields DEF Types
  <2>6. \A x, y \in Nat : Counted + x <= y + Recordings => Counted' + x <= y + Recordings'
      BY <2>3, <2>4, OneMore
  <2>7. \A y \in Nat : Counted <= y + Recordings => Counted' <= y + Recordings'
      BY <2>3, <2>4
  <2> DEFINE em == Cardinality(Earlier) + Cardinality(meanwhile)
             op == Offset + Page
             r == Cardinality(Rest)
  <2>8. /\ Counted + r <= em + Recordings
        /\ backfill.at = "page" => Counted <= Offset + Recordings
        /\ backfill.at = "rows" => Counted + r <= op + Recordings
      BY <1>2 DEF PagesBound
  <2>9. em \in Nat /\ op \in Nat /\ r \in Nat
      BY <2>5
  <2> HIDE DEF em, op, r
  <2>10. /\ Counted' + r <= em + Recordings'
         /\ backfill.at = "page" => Counted' <= Offset + Recordings'
         /\ backfill.at = "rows" => Counted' + r <= op + Recordings'
    <3>1. Counted' + r <= em + Recordings'
        BY <2>6, <2>8, <2>9
    <3>2. Counted <= Offset + Recordings => Counted' <= Offset + Recordings'
        BY <2>5, <2>7
    <3>3. Counted + r <= op + Recordings => Counted' + r <= op + Recordings'
        BY <2>6, <2>9
    <3>4. QED
        BY <2>8, <3>1, <3>2, <3>3
  <2>11. QED
      BY <1>1, <1>5, <2>10 DEF PagesBound, em, op, r
<1>13. AllBalanced'
    BY <1>1, <1>2, <1>3, RecordBalanced
<1>14. QED
    BY <1>4, <1>6, <1>7, <1>10, <1>11, <1>12, <1>13 DEF IInv

LEMMA ReadPageInv == ASSUME IInv, ReadPage PROVE IInv'
<1> DEFINE page == PageAt(Since, Offset)
<1>1. Types /\ RowsKnown /\ PageKnown /\ AllCounted /\ CountedOnce /\ PagesBound /\ AllBalanced
    BY DEF IInv
<1>2. /\ backfill.at = "page" /\ Offset' = Offset /\ Rest' = page
      /\ backfill'.at = IF page = {} THEN "done" ELSE "rows"
      /\ backfill'.short = (Cardinality(page) < Page)
      /\ UNCHANGED <<now, rows, hourly, inserted, meanwhile>>
      /\ Types'
    BY <1>1, ReadPageIs
<1>3. /\ rows \in SUBSET Logs /\ Offset \in Nat /\ Page \in Nat /\ Page > 0 /\ Since \in Int
      /\ \A m \in rows : m \in Logs /\ Newer(m) \in Nat /\ At[m] \in Nat
    BY <1>1, BackfillFields, Constants, NewerIs, LogTimes DEF Types
<1>4. \A m : Newer(m)' = Newer(m)
    BY <1>2 DEF Newer
<1>5. \A m \in page : m \in rows /\ At[m] >= Since /\ Newer(m) >= Offset /\ Newer(m) < Offset + Page
    BY <1>3 DEF PageAt
<1>6. /\ IsFiniteSet(page) /\ Cardinality(page) \in Nat /\ Cardinality(page) <= Page
      /\ page # {} => Offset + Cardinality(page) <= Cardinality(rows)
    BY <1>3, PageFits
<1>7. \A m \in rows : At[m] >= Since /\ Newer(m) >= Offset
        => m \in page \/ (Newer(m) >= Offset + Page /\ ~(Cardinality(page) < Page) /\ page # {})
  <2> SUFFICES ASSUME NEW m \in rows, At[m] >= Since, Newer(m) >= Offset, m \notin page
               PROVE  Newer(m) >= Offset + Page /\ ~(Cardinality(page) < Page) /\ page # {}
      OBVIOUS
  <2>1. Newer(m) >= Offset + Page
      BY <1>3 DEF PageAt
  <2>2. Cardinality(page) = Page
      BY <1>3, <2>1, PageFull
  <2> HIDE DEF page
  <2>3. page # {}
    <3>1. Cardinality(page) # 0
        BY <1>3, <2>2
    <3>2. QED
        BY <3>1, FS_EmptySet
  <2>4. QED
      BY <1>3, <2>1, <2>2, <2>3
<1> HIDE DEF page
<1>8. RowsKnown'
    BY <1>1, <1>2 DEF RowsKnown, Backfilling
<1>9. PageKnown'
    BY <1>2, <1>4, <1>5 DEF PageKnown
<1>10. \A m \in rows : At[m] >= Since => (Pending(m)' <=> Pending(m))
  <2> SUFFICES ASSUME NEW m \in rows, At[m] >= Since PROVE Pending(m)' <=> Pending(m)
      OBVIOUS
  <2> DEFINE late == Newer(m) >= Offset
             later == Newer(m) >= Offset + Page
             short == Cardinality(page) < Page
  <2>1. later => late
      BY <1>3
  <2>2. m \in page => late
      BY <1>5
  <2>3. late => m \in page \/ (later /\ ~short /\ page # {})
      BY <1>7
  <2>4. Pending(m) <=> late
      BY <1>2 DEF Pending
  <2>5. Pending(m)' <=> page # {} /\ (m \in page \/ (~short /\ later))
      BY <1>2, <1>4 DEF Pending
  <2> HIDE DEF late, later, short
  <2>6. m \in page => page # {}
      OBVIOUS
  <2>7. QED
      BY <2>1, <2>2, <2>3, <2>4, <2>5, <2>6
<1>11. Certain' = Certain
    BY <1>2, <1>10 DEF Certain
<1>12. AllCounted'
  <2>1. hourly' = hourly /\ now' >= now
      BY <1>1, <1>2 DEF Types
  <2>2. QED
      BY <1>1, <1>2, <1>11, <2>1, QuietCounted
<1>13. CountedOnce'
  <2>1. Undisturbed' => Undisturbed /\ Certain \subseteq Certain'
      BY <1>2, <1>11 DEF Undisturbed
  <2>2. QED
      BY <1>1, <1>2, <2>1, QuietOnce
<1>14. PagesBound'
  <2>1. Recordings' = Recordings /\ Counted' = Counted /\ meanwhile' = meanwhile
      BY <1>2 DEF Recordings, Counted
  <2>2. Recordings \in Nat /\ Counted \in Nat /\ Cardinality(meanwhile) \in Nat /\ Cardinality(Earlier) \in Nat
      BY <1>1, FiniteRows, CountedNat, Constants DEF Types, Recordings
  <2>3. Counted <= Offset + Recordings
      BY <1>1, <1>2 DEF PagesBound
  <2>4. Counted <= Cardinality(Earlier) + Cardinality(meanwhile) + Recordings
    <3>1. Rest = {}
        BY <1>1, <1>2 DEF PageKnown
    <3>2. Cardinality(Rest) = 0
        BY <3>1, FS_EmptySet
    <3>3. Counted + Cardinality(Rest) <= Cardinality(Earlier) + Cardinality(meanwhile) + Recordings
        BY <1>1 DEF PagesBound
    <3>4. QED
        BY <2>2, <3>2, <3>3
  <2>5. Cardinality(rows) <= Cardinality(Earlier) + Cardinality(meanwhile) /\ Cardinality(rows) \in Nat
    <3>1. rows = Earlier \cup meanwhile /\ IsFiniteSet(Earlier) /\ IsFiniteSet(meanwhile)
        BY <1>1, <1>2, Constants, FiniteRows DEF RowsKnown, Backfilling, Types
    <3>2. /\ Cardinality(rows) = Cardinality(Earlier) + Cardinality(meanwhile)
                                 - Cardinality(Earlier \cap meanwhile)
          /\ IsFiniteSet(Earlier \cap meanwhile)
        BY <3>1, FS_Union, FS_Subset
    <3>3. Cardinality(Earlier \cap meanwhile) \in Nat
        BY <3>2, FS_CardinalityType
    <3>4. Cardinality(rows) \in Nat
        BY <1>3, FiniteRows
    <3>5. QED
        BY <2>2, <3>2, <3>3, <3>4
  <2> DEFINE p == Cardinality(page)
             em == Cardinality(Earlier) + Cardinality(meanwhile)
  <2>6. p \in Nat /\ p <= Page /\ (page = {} => p = 0) /\ em \in Nat
      BY <1>6, <2>2, FS_EmptySet
  <2>7. Counted + p <= em + Recordings
    <3>1. CASE page = {}
        BY <2>2, <2>4, <2>6, <3>1
    <3>2. CASE page # {}
      <4>1. Offset + p <= em
          BY <1>3, <1>6, <2>2, <2>5, <3>2
      <4> HIDE DEF p, em
      <4>2. QED
          BY <1>3, <2>2, <2>3, <2>6, <4>1
    <3>3. QED
        BY <3>1, <3>2
  <2>8. Counted + p <= Offset + Page + Recordings
    <3> HIDE DEF p, em
    <3>1. QED
        BY <1>3, <2>2, <2>3, <2>6
  <2>9. QED
      BY <1>2, <2>1, <2>7, <2>8 DEF PagesBound
<1>15. AllBalanced'
    BY <1>1, <1>2 DEF AllBalanced
<1>16. QED
    BY <1>2, <1>8, <1>9, <1>12, <1>13, <1>14, <1>15 DEF IInv

LEMMA BackfillRecordsInv == ASSUME IInv, BackfillRecords PROVE IInv'
<1>1. Types /\ RowsKnown /\ PageKnown /\ AllCounted /\ CountedOnce /\ PagesBound /\ AllBalanced
    BY DEF IInv
<1>2. /\ backfill.at = "rows" /\ backfill'.at = "rows"
      /\ Offset' = Offset /\ backfill'.short = backfill.short
      /\ UNCHANGED <<now, rows, inserted, meanwhile>>
      /\ Types'
    BY <1>1, BackfillRecordsIs
<1>3. PICK l \in Rest : Rest' = Rest \ {l} /\ hourly' = Recorded(hourly, l)
    BY <1>1, BackfillRecordsIs
<1>4. l \in rows /\ l \in Logs /\ At[l] >= Since
    BY <1>1, <1>3 DEF PageKnown, Types
<1>5. \A m : Newer(m)' = Newer(m)
    BY <1>2 DEF Newer
<1>6. RowsKnown'
    BY <1>1, <1>2 DEF RowsKnown, Backfilling
<1>7. PageKnown'
    BY <1>1, <1>2, <1>3, <1>5 DEF PageKnown
<1>8. \A m : m # l => (Pending(m)' <=> Pending(m))
  <2> TAKE m
  <2> HAVE m # l
  <2>1. m \in Rest' <=> m \in Rest
      BY <1>3
  <2>2. (Newer(m) >= Offset + Page)' <=> Newer(m) >= Offset + Page
      BY <1>2, <1>5
  <2>3. QED
      BY <1>2, <2>1, <2>2 DEF Pending
<1>9. Certain' \subseteq Certain \cup {l}
    BY <1>2, <1>8 DEF Certain
<1>10. AllCounted'
    BY <1>1, <1>2, <1>3, <1>4, <1>9, RecordCounted
<1>11. CountedOnce'
  <2>1. ASSUME Undisturbed'
        PROVE  Undisturbed /\ l \notin Certain /\ Certain \cup {l} \subseteq Certain'
    <3>1. Undisturbed /\ meanwhile = {}
        BY <1>2, <2>1 DEF Undisturbed
    <3>2. rows \ Earlier = {}
        BY <1>1, <1>2, <3>1 DEF RowsKnown, Backfilling
    <3>3. l \in Earlier /\ inserted \notin Earlier
        BY <1>1, <1>4, <3>2, Constants DEF RowsKnown
    <3>4. Pending(l)
        BY <1>2, <1>3 DEF Pending
    <3>5. l \notin Certain
        BY <3>3, <3>4 DEF Certain
    <3>6. ~Pending(l)'
      <4>1. ~(Newer(l) >= Offset + Page)
        <5>1. Newer(l) < Offset + Page
            BY <1>1, <1>3, <3>1 DEF PageKnown
        <5>2. Newer(l) \in Nat /\ Offset \in Nat /\ Page \in Nat
            BY <1>1, <1>4, NewerIs, BackfillFields, Constants DEF Types
        <5>3. QED
            BY <5>1, <5>2
      <4>2. ~(Newer(l) >= Offset + Page)' /\ l \notin Rest'
          BY <1>2, <1>3, <1>5, <4>1
      <4>3. QED
          BY <1>2, <4>2 DEF Pending
    <3>7. l \in Certain' /\ Certain \subseteq Certain'
        BY <1>2, <1>4, <1>8, <3>3, <3>5, <3>6 DEF Certain
    <3>8. QED
        BY <3>1, <3>5, <3>7
  <2>2. QED
      BY <1>1, <1>2, <1>3, <1>4, <2>1, RecordOnce
<1>12. PagesBound'
  <2>1. Recordings' = Recordings /\ meanwhile' = meanwhile
      BY <1>2 DEF Recordings
  <2>2. Recordings \in Nat /\ Cardinality(meanwhile) \in Nat /\ Cardinality(Earlier) \in Nat
      BY <1>1, FiniteRows, Constants DEF Types, Recordings
  <2>3. Counted' <= Counted + 1 /\ Counted \in Nat /\ Counted' \in Nat
      BY <1>1, <1>2, <1>3, <1>4, RecordCount
  <2>4. Offset \in Nat /\ Page \in Nat /\ Rest \in SUBSET Logs
      BY <1>1, BackfillFields, Constants DEF Types
  <2>5. Cardinality(Rest') = Cardinality(Rest) - 1 /\ Cardinality(Rest) \in Nat /\ Cardinality(Rest') \in Nat
    <3>1. IsFiniteSet(Rest) /\ Rest' \in SUBSET Logs
        BY <1>3, <2>4, FiniteRows
    <3>2. QED
        BY <1>3, <2>4, <3>1, FiniteRows, FS_RemoveElement
  <2> DEFINE r == Cardinality(Rest)
             s == Cardinality(Rest')
             old == Counted + r
             new == Counted' + s
             em == Cardinality(Earlier) + Cardinality(meanwhile) + Recordings
             op == Offset + Page + Recordings
  <2>6. new <= old /\ new \in Nat /\ old \in Nat
      BY <2>3, <2>5
  <2>7. old <= em /\ old <= op
      BY <1>1, <1>2 DEF PagesBound
  <2>8. em \in Nat /\ op \in Nat
      BY <2>2, <2>4
  <2> HIDE DEF old, new, em, op
  <2>9. new <= em /\ new <= op
      BY <2>6, <2>7, <2>8
  <2>10. QED
      BY <1>2, <2>1, <2>9 DEF PagesBound, em, op, new
<1>13. AllBalanced'
    BY <1>1, <1>3, <1>4, RecordBalanced
<1>14. QED
    BY <1>2, <1>6, <1>7, <1>10, <1>11, <1>12, <1>13 DEF IInv

LEMMA PageDoneInv == ASSUME IInv, PageDone PROVE IInv'
<1>1. Types /\ RowsKnown /\ PageKnown /\ AllCounted /\ CountedOnce /\ PagesBound /\ AllBalanced
    BY DEF IInv
<1>2. /\ backfill.at = "rows" /\ Rest = {} /\ Rest' = {}
      /\ UNCHANGED <<now, rows, hourly, inserted, meanwhile>> /\ Types'
    BY <1>1, PageDoneIs
<1>3. \/ backfill.short /\ backfill'.at = "done" /\ Offset' = Offset
      \/ ~backfill.short /\ backfill'.at = "page" /\ Offset' = Offset + Page
    BY <1>1, PageDoneIs
<1>4. \A m : Newer(m)' = Newer(m)
    BY <1>2 DEF Newer
<1>5. RowsKnown'
    BY <1>1, <1>2 DEF RowsKnown, Backfilling
<1>6. PageKnown'
    BY <1>2 DEF PageKnown
<1>7. \A m : Pending(m)' <=> Pending(m)
  <2> TAKE m
  <2> DEFINE later == Newer(m) >= Offset + Page
  <2>1. Pending(m) <=> ~backfill.short /\ later
      BY <1>2 DEF Pending
  <2>2. CASE backfill.short
      BY <1>2, <1>3, <2>1, <2>2 DEF Pending
  <2>3. CASE ~backfill.short
    <3>1. (Newer(m) >= Offset)' <=> later
        BY <1>3, <1>4, <2>3
    <3>2. Pending(m)' <=> (Newer(m) >= Offset)'
        BY <1>3, <2>3 DEF Pending
    <3>3. QED
        BY <2>1, <2>3, <3>1, <3>2
  <2>4. QED
      BY <2>2, <2>3
<1>8. Certain' = Certain
    BY <1>2, <1>7 DEF Certain
<1>9. AllCounted'
  <2>1. hourly' = hourly /\ now' >= now
      BY <1>1, <1>2 DEF Types
  <2>2. QED
      BY <1>1, <1>2, <1>8, <2>1, QuietCounted
<1>10. CountedOnce'
  <2>1. Undisturbed' => Undisturbed /\ Certain \subseteq Certain'
      BY <1>2, <1>8 DEF Undisturbed
  <2>2. QED
      BY <1>1, <1>2, <2>1, QuietOnce
<1>11. PagesBound'
  <2>1. Recordings' = Recordings /\ Counted' = Counted /\ meanwhile' = meanwhile /\ Rest' = Rest
      BY <1>2 DEF Recordings, Counted
  <2>2. Counted + Cardinality(Rest) <= Offset + Page + Recordings
      BY <1>1, <1>2 DEF PagesBound
  <2>3. Counted \in Nat /\ Recordings \in Nat /\ Offset \in Nat /\ Page \in Nat
      BY <1>1, FiniteRows, CountedNat, Constants, BackfillFields DEF Types, Recordings
  <2>4. Cardinality(Rest) = 0
      BY <1>2, FS_EmptySet
  <2>5. Counted <= Offset + Page + Recordings
      BY <2>2, <2>3, <2>4
  <2>6. backfill'.at = "page" => Counted' <= Offset' + Recordings'
      BY <1>3, <2>1, <2>5
  <2>7. Counted' + Cardinality(Rest') <= Cardinality(Earlier) + Cardinality(meanwhile') + Recordings'
      BY <1>1, <2>1 DEF PagesBound
  <2>8. backfill'.at # "rows"
      BY <1>3
  <2>9. QED
      BY <2>6, <2>7, <2>8 DEF PagesBound
<1>12. AllBalanced'
    BY <1>1, <1>2 DEF AllBalanced
<1>13. QED
    BY <1>2, <1>5, <1>6, <1>9, <1>10, <1>11, <1>12 DEF IInv

LEMMA BackfillFailsInv == ASSUME IInv, BackfillFails PROVE IInv'
<1>1. Types /\ RowsKnown /\ PageKnown /\ AllCounted /\ CountedOnce /\ PagesBound /\ AllBalanced
    BY DEF IInv
<1>2. /\ backfill.at = "page" /\ backfill'.at = "failed" /\ Offset' = Offset /\ Rest' = Rest
      /\ UNCHANGED <<now, rows, hourly, inserted, meanwhile>> /\ Types'
    BY <1>1, BackfillFailsIs
<1>3. \A m : Newer(m)' = Newer(m)
    BY <1>2 DEF Newer
<1>4. RowsKnown'
    BY <1>1, <1>2 DEF RowsKnown, Backfilling
<1>5. PageKnown'
    BY <1>1, <1>2 DEF PageKnown
<1>6. \A m : Pending(m)' <=> Pending(m)
    BY <1>2, <1>3 DEF Pending
<1>7. Certain' = Certain
    BY <1>2, <1>6 DEF Certain
<1>8. AllCounted'
  <2>1. hourly' = hourly /\ now' >= now
      BY <1>1, <1>2 DEF Types
  <2>2. QED
      BY <1>1, <1>2, <1>7, <2>1, QuietCounted
<1>9. CountedOnce'
    BY <1>2 DEF CountedOnce, Undisturbed
<1>10. PagesBound'
  <2>1. Recordings' = Recordings /\ Counted' = Counted /\ meanwhile' = meanwhile
      BY <1>2 DEF Recordings, Counted
  <2>2. QED
      BY <1>1, <1>2, <2>1 DEF PagesBound
<1>11. AllBalanced'
    BY <1>1, <1>2 DEF AllBalanced
<1>12. QED
    BY <1>2, <1>4, <1>5, <1>8, <1>9, <1>10, <1>11 DEF IInv

LEMMA TickInv == ASSUME IInv, Tick PROVE IInv'
<1>1. Types /\ RowsKnown /\ PageKnown /\ AllCounted /\ CountedOnce /\ PagesBound /\ AllBalanced
    BY DEF IInv
<1>2. now' = now + 1 /\ UNCHANGED <<rows, hourly, inserted, backfill, meanwhile>>
    BY DEF Tick
<1>3. now' \in Nat /\ now' >= now /\ now \in Nat /\ Start <= now'
    BY <1>1, <1>2, Constants DEF Types
<1>4. Types'
    BY <1>1, <1>2, <1>3 DEF Types, BackfillType
<1>5. RowsKnown'
  <2>1. \A l \in rows : At[l] <= now'
    <3>1. \A l \in rows : At[l] \in Nat /\ At[l] <= now
        BY <1>1, LogTimes DEF RowsKnown, Types
    <3>2. QED
        BY <1>3, <3>1
  <2>2. QED
      BY <1>1, <1>2, <2>1 DEF RowsKnown, Backfilling
<1>6. Offset' = Offset /\ Rest' = Rest /\ \A m : Newer(m)' = Newer(m)
    BY <1>2 DEF Offset, Rest, Newer
<1>7. PageKnown'
    BY <1>1, <1>2, <1>6 DEF PageKnown
<1>8. \A m : Pending(m)' <=> Pending(m)
    BY <1>2, <1>6 DEF Pending
<1>9. Certain' = Certain
    BY <1>2, <1>8 DEF Certain
<1>10. AllCounted'
    BY <1>1, <1>2, <1>3, <1>4, <1>9, QuietCounted
<1>11. CountedOnce'
  <2>1. Undisturbed' => Undisturbed /\ Certain \subseteq Certain'
      BY <1>2, <1>9 DEF Undisturbed
  <2>2. QED
      BY <1>1, <1>2, <1>4, <2>1, QuietOnce
<1>12. PagesBound'
  <2>1. Recordings' = Recordings /\ Counted' = Counted
      BY <1>2 DEF Recordings, Counted
  <2>2. QED
      BY <1>1, <1>2, <1>6, <2>1 DEF PagesBound
<1>13. AllBalanced'
    BY <1>1, <1>2 DEF AllBalanced
<1>14. QED
    BY <1>4, <1>5, <1>7, <1>10, <1>11, <1>12, <1>13 DEF IInv

LEMMA StutterInv == ASSUME IInv, UNCHANGED vars PROVE IInv'
<1>1. UNCHANGED <<now, rows, hourly, inserted, backfill, meanwhile>>
    BY DEF vars
<1>2. Offset' = Offset /\ Rest' = Rest /\ Recordings' = Recordings /\ Counted' = Counted
      /\ \A m : Newer(m)' = Newer(m)
    BY <1>1 DEF Offset, Rest, Newer, Recordings, Counted
<1>3. \A m : Pending(m)' <=> Pending(m)
    BY <1>1, <1>2 DEF Pending
<1>4. Certain' = Certain
    BY <1>1, <1>3 DEF Certain
<1>5. Types' /\ RowsKnown' /\ PageKnown' /\ AllCounted' /\ CountedOnce' /\ PagesBound' /\ AllBalanced'
  <2>1. Types'
      BY <1>1 DEF IInv, Types, BackfillType
  <2>2. RowsKnown' /\ PageKnown'
      BY <1>1, <1>2 DEF IInv, RowsKnown, PageKnown, Backfilling
  <2>3. \A h : CertainIn(h)' = CertainIn(h)
      BY <1>4 DEF CertainIn
  <2>4. AllCounted' /\ CountedOnce'
      BY <1>1, <2>3 DEF IInv, AllCounted, CountedOnce, Undisturbed
  <2>5. PagesBound' /\ AllBalanced'
      BY <1>1, <1>2 DEF IInv, PagesBound, AllBalanced
  <2>6. QED
      BY <2>1, <2>2, <2>4, <2>5
<1>6. QED
    BY <1>5 DEF IInv

LEMMA NextInv == IInv /\ [Next]_vars => IInv'
<1> SUFFICES ASSUME IInv, [Next]_vars PROVE IInv'
    OBVIOUS
<1>1. CASE \E l \in Logs : Insert(l)
    BY <1>1, InsertInv
<1>2. CASE CollectorRecords
    BY <1>2, CollectorInv
<1>3. CASE ReadPage
    BY <1>3, ReadPageInv
<1>4. CASE BackfillRecords
    BY <1>4, BackfillRecordsInv
<1>5. CASE PageDone
    BY <1>5, PageDoneInv
<1>6. CASE BackfillFails
    BY <1>6, BackfillFailsInv
<1>7. CASE Tick
    BY <1>7, TickInv
<1>8. CASE UNCHANGED vars
    BY <1>8, StutterInv
<1>9. QED
    BY <1>1, <1>2, <1>3, <1>4, <1>5, <1>6, <1>7, <1>8 DEF Next, Backfill

\* The invariant of the collector and the backfill at work on the same buckets
\* (Record, Backfill, persist).
THEOREM Invariance == Spec => []IInv
<1>1. QED
    BY InitInv, NextInv, PTL DEF Spec

-----------------------------------------------------------------------------
(***************************************************************************)
(* What follows.                                                           *)
(***************************************************************************)

\* When the backfill is done and nothing is left to record, the rows of an hour
\* within the retention have all been counted.
LEMMA DoneIsCertain ==
    ASSUME IInv, backfill.at = "done", inserted = Nothing,
           NEW h \in Hours, StartOf(h) >= now - Retention
    PROVE  CertainIn(h) = {l \in rows : BucketOf(At[l]) = h}
<1>1. Types
    BY DEF IInv
<1>2. \A l : ~Pending(l)
    BY DEF Pending
<1>3. Nothing \notin rows
    BY <1>1, Constants DEF Types
<1>4. \A l \in rows : BucketOf(At[l]) = h => At[l] >= Since
  <2> SUFFICES ASSUME NEW l \in rows, BucketOf(At[l]) = h PROVE At[l] >= Since
      OBVIOUS
  <2>1. At[l] \in Nat /\ Hour \in Nat \ {0}
      BY <1>1, Constants, LogTimes DEF Types
  <2>2. (At[l] \div Hour) * Hour <= At[l]
      BY <2>1, Division
  <2>3. StartOf(h) <= At[l]
      BY <2>2 DEF BucketOf, StartOf
  <2>4. StartOf(h) \in Nat /\ now \in Nat /\ Start \in Nat /\ Retention \in Nat /\ Start <= now
      BY <1>1, HourNat, Constants DEF Types
  <2>5. QED
      BY <2>1, <2>3, <2>4 DEF Since
<1>5. QED
    BY <1>2, <1>3, <1>4 DEF CertainIn, Certain

\* For any rows, pages and interleaving of insertions with the reading of pages:
\* a backfill that came to its end and a collector that owes nothing have counted
\* every row of the hours within the retention (Backfill, QueryRequestLogs).
THEOREM NoRowMissed == Spec => []NoneMissed
<1>1. IInv => NoneMissed
  <2> SUFFICES ASSUME IInv, backfill.at = "done", inserted = Nothing,
                      NEW h \in Hours, StartOf(h) >= now - Retention
               PROVE  hourly[h].requests >= RowsIn(h)
      BY DEF NoneMissed
  <2>1. CertainIn(h) = {l \in rows : BucketOf(At[l]) = h}
      BY DoneIsCertain
  <2>2. hourly[h].requests >= Cardinality(CertainIn(h))
      BY DEF IInv, AllCounted
  <2>3. QED
      BY <2>1, <2>2 DEF RowsIn
<1>2. QED
    BY <1>1, Invariance, PTL

\* For any rows, pages and interleaving, what is counted twice is bounded by the
\* rows inserted while the backfill ran (Backfill, Record).
THEOREM SurplusIsBounded == Spec => []SurplusBounded
<1>1. IInv => SurplusBounded
  <2> SUFFICES ASSUME IInv PROVE SurplusBounded
      OBVIOUS
  <2>1. Types /\ RowsKnown /\ PagesBound
      BY DEF IInv
  <2>2. Everywhere.requests = Counted
    <3> DEFINE T == [h \in Hours |-> hourly[h]]
    <3>1. T = hourly /\ DOMAIN T = Hours
        BY <2>1 DEF Types
    <3>2. Everywhere = Total(T)
        BY DEF Everywhere
    <3> HIDE DEF T
    <3>3. Total(T).requests = SumOf(Requests(T), DOMAIN T)
        BY <3>1, FiniteSets, TotalRequests
    <3>4. QED
        BY <3>1, <3>2, <3>3 DEF Counted
  <2>3. Counted + Cardinality(Rest) <= Cardinality(Earlier) + Cardinality(meanwhile) + Recordings
      BY <2>1 DEF PagesBound
  <2> DEFINE own == rows \ Earlier
  <2>4. own \in SUBSET Logs /\ own \ {inserted} \in SUBSET own /\ Rest \in SUBSET Logs
        /\ meanwhile \in SUBSET Logs /\ rows \in SUBSET Logs /\ own \ {inserted} \in SUBSET Logs
      BY <2>1, BackfillFields DEF Types
  <2>5. /\ Cardinality(own) \in Nat /\ Cardinality(Rest) \in Nat /\ Cardinality(meanwhile) \in Nat
        /\ Cardinality(rows) \in Nat /\ Cardinality(Earlier) \in Nat
        /\ IsFiniteSet(own) /\ Cardinality(own \ {inserted}) \in Nat
      BY <2>4, FiniteRows, Constants
  <2>6. Recordings <= Cardinality(own) /\ Recordings \in Nat
    <3>1. Cardinality(own \ {inserted}) <= Cardinality(own)
        BY <2>4, <2>5, FS_Subset
    <3>2. Recordings = Cardinality(own \ {inserted})
        BY DEF Recordings
    <3>3. QED
        BY <2>5, <3>1, <3>2
  <2>7. Cardinality(rows) = Cardinality(Earlier) + Cardinality(own)
    <3>1. rows = Earlier \cup own /\ Earlier \cap own = {}
        BY <2>1 DEF RowsKnown
    <3> HIDE DEF own
    <3>2. Cardinality(Earlier \cup own) = Cardinality(Earlier) + Cardinality(own) - Cardinality(Earlier \cap own)
        BY <2>5, Constants, FS_Union
    <3>3. Cardinality(Earlier \cap own) = 0
        BY <3>1, FS_EmptySet
    <3>4. QED
        BY <2>5, <3>1, <3>2, <3>3
  <2>8. Counted \in Nat
      BY <2>1, CountedNat
  <2> HIDE DEF own
  <2>9. Counted <= Cardinality(rows) + Cardinality(meanwhile)
      BY <2>3, <2>5, <2>6, <2>7, <2>8
  <2>10. QED
      BY <2>2, <2>9 DEF SurplusBounded
<1>2. QED
    BY <1>1, Invariance, PTL

-----------------------------------------------------------------------------
(***************************************************************************)
(* The readers.  First the breakdowns: each adds up to the totals because  *)
(* it does so in every bucket.                                             *)
(***************************************************************************)
LEMMA BucketNumbers ==
    ASSUME Types, NEW S \in SUBSET Hours, NEW T, T = [h \in S |-> hourly[h]]
    PROVE  /\ DOMAIN T = S /\ IsFiniteSet(S) /\ Numeric(T)
           /\ \A h \in S : /\ Requests(T)[h] = hourly[h].requests /\ hourly[h].requests \in Nat
                           /\ Errors(T)[h] = hourly[h].errors /\ hourly[h].errors \in Nat
                           /\ Latencies(T)[h] = hourly[h].latency /\ hourly[h].latency \in Nat
<1>1. \A h \in S : hourly[h].requests \in Nat /\ hourly[h].errors \in Nat /\ hourly[h].latency \in Nat
    BY DEF Types, BucketType
<1>2. DOMAIN T = S /\ \A h \in S : T[h] = hourly[h]
    OBVIOUS
<1>3. IsFiniteSet(S)
    BY FiniteSets, FS_Subset
<1>4. QED
    BY <1>1, <1>2, <1>3 DEF Numeric, Requests, Errors, Latencies

LEMMA BucketTotal ==
    ASSUME Types, NEW S \in SUBSET Hours, NEW T, T = [h \in S |-> hourly[h]]
    PROVE  Total(T) = [requests |-> SumOf(Requests(T), S),
                       errors   |-> SumOf(Errors(T), S),
                       latency  |-> SumOf(Latencies(T), S)]
<1>1. DOMAIN T = S /\ IsFiniteSet(S) /\ Numeric(T)
    BY BucketNumbers
<1>2. QED
    BY <1>1, TotalType

LEMMA BreakdownsAddUp ==
    ASSUME Types, AllBalanced, NEW S \in SUBSET Hours, NEW d \in Dims
    PROVE  Total([n \in Names |-> Total([h \in S |-> hourly[h].by[d][n]])])
         = Total([h \in S |-> hourly[h]])
<1> DEFINE T == [h \in S |-> hourly[h]]
           Col(n) == [h \in S |-> hourly[h].by[d][n]]
           B == [n \in Names |-> Total(Col(n))]
<1>1. IsFiniteSet(S) /\ IsFiniteSet(Names)
    BY FiniteSets, FS_Subset
<1>2. \A h \in S : hourly[h].by[d] \in [Names -> TallyType]
    BY DEF Types, BucketType
<1>3. \A n \in Names : DOMAIN Col(n) = S /\ \A h \in S : Col(n)[h] = hourly[h].by[d][n] /\ Col(n)[h] \in TallyType
    BY <1>2
<1>4. \A n \in Names : Numeric(Col(n))
    BY <1>3 DEF Numeric, TallyType
<1>5. \A n \in Names : /\ B[n] = Total(Col(n)) /\ Total(Col(n)) \in TallyType
                       /\ Total(Col(n)).requests = SumOf(Requests(Col(n)), S)
                       /\ Total(Col(n)).errors = SumOf(Errors(Col(n)), S)
                       /\ Total(Col(n)).latency = SumOf(Latencies(Col(n)), S)
  <2> SUFFICES ASSUME NEW n \in Names
               PROVE  /\ B[n] = Total(Col(n)) /\ Total(Col(n)) \in TallyType
                      /\ Total(Col(n)).requests = SumOf(Requests(Col(n)), S)
                      /\ Total(Col(n)).errors = SumOf(Errors(Col(n)), S)
                      /\ Total(Col(n)).latency = SumOf(Latencies(Col(n)), S)
      OBVIOUS
  <2>1. B[n] = Total(Col(n))
      OBVIOUS
  <2>2. DOMAIN Col(n) = S /\ Numeric(Col(n)) /\ IsFiniteSet(S)
      BY <1>1, <1>3, <1>4
  <2> HIDE DEF Col, B
  <2>3. QED
      BY <2>1, <2>2, TotalType, TotalRequests, TotalErrors, TotalLatencies
<1>6. B \in [Names -> TallyType]
    BY <1>5
<1>7. \A n \in Names : /\ Requests(B)[n] = SumOf(Requests(Col(n)), S)
                       /\ Errors(B)[n] = SumOf(Errors(Col(n)), S)
                       /\ Latencies(B)[n] = SumOf(Latencies(Col(n)), S)
  <2> HIDE DEF B, Col
  <2>1. QED
      BY <1>5, <1>6, BreakdownNumbers
<1>8. \A h \in S : /\ Requests(T)[h] = SumOf(Requests(hourly[h].by[d]), Names)
                   /\ Errors(T)[h] = SumOf(Errors(hourly[h].by[d]), Names)
                   /\ Latencies(T)[h] = SumOf(Latencies(hourly[h].by[d]), Names)
  <2> SUFFICES ASSUME NEW h \in S
               PROVE  /\ Requests(T)[h] = SumOf(Requests(hourly[h].by[d]), Names)
                      /\ Errors(T)[h] = SumOf(Errors(hourly[h].by[d]), Names)
                      /\ Latencies(T)[h] = SumOf(Latencies(hourly[h].by[d]), Names)
      OBVIOUS
  <2>1. Total(hourly[h].by[d]) = [requests |-> hourly[h].requests, errors |-> hourly[h].errors,
                                  latency |-> hourly[h].latency]
      BY DEF AllBalanced, Balanced
  <2>2. Total(hourly[h].by[d]) = [requests |-> SumOf(Requests(hourly[h].by[d]), Names),
                                  errors |-> SumOf(Errors(hourly[h].by[d]), Names),
                                  latency |-> SumOf(Latencies(hourly[h].by[d]), Names)]
      BY <1>2, BreakdownTotal
  <2>3. /\ Requests(T)[h] = hourly[h].requests /\ Errors(T)[h] = hourly[h].errors
        /\ Latencies(T)[h] = hourly[h].latency
      BY BucketNumbers
  <2> HIDE DEF T
  <2>4. QED
      BY <2>1, <2>2, <2>3
<1>9. \A n \in Names, h \in S :
         /\ Requests(Col(n))[h] \in Nat /\ Requests(hourly[h].by[d])[n] = Requests(Col(n))[h]
         /\ Errors(Col(n))[h] \in Nat /\ Errors(hourly[h].by[d])[n] = Errors(Col(n))[h]
         /\ Latencies(Col(n))[h] \in Nat /\ Latencies(hourly[h].by[d])[n] = Latencies(Col(n))[h]
  <2> SUFFICES ASSUME NEW n \in Names, NEW h \in S
               PROVE  /\ Requests(Col(n))[h] \in Nat /\ Requests(hourly[h].by[d])[n] = Requests(Col(n))[h]
                      /\ Errors(Col(n))[h] \in Nat /\ Errors(hourly[h].by[d])[n] = Errors(Col(n))[h]
                      /\ Latencies(Col(n))[h] \in Nat /\ Latencies(hourly[h].by[d])[n] = Latencies(Col(n))[h]
      OBVIOUS
  <2> DEFINE t == hourly[h].by[d][n]
             C == Col(n)
             by == hourly[h].by[d]
  <2>1. DOMAIN C = S /\ C[h] = t /\ by \in [Names -> TallyType] /\ t = by[n]
      BY <1>2, <1>3
  <2> HIDE DEF t, C, by
  <2>2. Requests(C)[h] = t.requests /\ Errors(C)[h] = t.errors /\ Latencies(C)[h] = t.latency
      BY <2>1 DEF Requests, Errors, Latencies
  <2>3. /\ Requests(by)[n] = t.requests /\ t.requests \in Nat /\ Errors(by)[n] = t.errors
        /\ t.errors \in Nat /\ Latencies(by)[n] = t.latency /\ t.latency \in Nat
      BY <2>1, BreakdownNumbers
  <2>4. QED
      BY <2>2, <2>3 DEF C, by
<1> HIDE DEF T, Col, B
<1>10. SumOf(Requests(B), Names) = SumOf(Requests(T), S)
  <2> DEFINE g == [n \in Names |-> Requests(Col(n))]
             c == [h \in S |-> Requests(hourly[h].by[d])]
             a == Requests(B)
             b == Requests(T)
  <2>1. \A n \in Names, h \in S : g[n][h] \in Nat /\ c[h][n] = g[n][h]
      BY <1>9
  <2>2. \A n \in Names : a[n] = SumOf(g[n], S)
      BY <1>7
  <2>3. \A h \in S : b[h] = SumOf(c[h], Names)
      BY <1>8
  <2> HIDE DEF g, c, a, b
  <2>4. Table(g, c, a, b, Names, S)
      BY <2>1, <2>2, <2>3 DEF Table
  <2>5. SumOf(a, Names) = SumOf(b, S)
      BY <1>1, <2>4, SumSwap
  <2>6. QED
      BY <2>5 DEF a, b
<1>11. SumOf(Errors(B), Names) = SumOf(Errors(T), S)
  <2> DEFINE g == [n \in Names |-> Errors(Col(n))]
             c == [h \in S |-> Errors(hourly[h].by[d])]
             a == Errors(B)
             b == Errors(T)
  <2>1. \A n \in Names, h \in S : g[n][h] \in Nat /\ c[h][n] = g[n][h]
      BY <1>9
  <2>2. \A n \in Names : a[n] = SumOf(g[n], S)
      BY <1>7
  <2>3. \A h \in S : b[h] = SumOf(c[h], Names)
      BY <1>8
  <2> HIDE DEF g, c, a, b
  <2>4. Table(g, c, a, b, Names, S)
      BY <2>1, <2>2, <2>3 DEF Table
  <2>5. SumOf(a, Names) = SumOf(b, S)
      BY <1>1, <2>4, SumSwap
  <2>6. QED
      BY <2>5 DEF a, b
<1>12. SumOf(Latencies(B), Names) = SumOf(Latencies(T), S)
  <2> DEFINE g == [n \in Names |-> Latencies(Col(n))]
             c == [h \in S |-> Latencies(hourly[h].by[d])]
             a == Latencies(B)
             b == Latencies(T)
  <2>1. \A n \in Names, h \in S : g[n][h] \in Nat /\ c[h][n] = g[n][h]
      BY <1>9
  <2>2. \A n \in Names : a[n] = SumOf(g[n], S)
      BY <1>7
  <2>3. \A h \in S : b[h] = SumOf(c[h], Names)
      BY <1>8
  <2> HIDE DEF g, c, a, b
  <2>4. Table(g, c, a, b, Names, S)
      BY <2>1, <2>2, <2>3 DEF Table
  <2>5. SumOf(a, Names) = SumOf(b, S)
      BY <1>1, <2>4, SumSwap
  <2>6. QED
      BY <2>5 DEF a, b
<1>13. Total(B) = [requests |-> SumOf(Requests(B), Names), errors |-> SumOf(Errors(B), Names),
                   latency |-> SumOf(Latencies(B), Names)]
    BY <1>6, BreakdownTotal
<1>14. Total(T) = [requests |-> SumOf(Requests(T), S), errors |-> SumOf(Errors(T), S),
                   latency |-> SumOf(Latencies(T), S)]
    BY BucketTotal DEF T
<1>15. Total(B) = Total(T)
    BY <1>10, <1>11, <1>12, <1>13, <1>14
<1>16. QED
    BY <1>15 DEF B, T, Col

-----------------------------------------------------------------------------
(***************************************************************************)
(* The days of a series: when the window starts with a day, the hours of   *)
(* the days are the hours of the series.                                   *)
(***************************************************************************)
LEMMA ProductsGrow ==
    ASSUME NEW p \in Int, NEW q \in Int, p <= q, NEW n \in Nat
    PROVE  p * n \in Int /\ q * n \in Int /\ p * n <= q * n
<1>1. q - p \in Nat
    OBVIOUS
<1>2. \A x, y \in Nat : x * y >= 0
    OBVIOUS
<1>3. (q - p) * n >= 0
    BY <1>1, <1>2
<1>4. (q - p) * n = q * n - p * n /\ p * n \in Int /\ q * n \in Int
    OBVIOUS
<1>5. QED
    BY <1>3, <1>4

LEMMA Remainder ==
    ASSUME NEW t \in Nat, NEW n \in Nat \ {0}, t % n = 0
    PROVE  t = (t \div n) * n
OBVIOUS

\* No bucket starts after the end of the clock.
LEMMA HoursStart == \A k \in Hours : StartOf(k) <= End
<1> SUFFICES ASSUME NEW k \in Hours PROVE StartOf(k) <= End
    OBVIOUS
<1> DEFINE q == End \div Hour
<1>1. End \in Nat /\ Hour \in Nat \ {0}
    BY Constants
<1>2. q \in Nat /\ q * Hour <= End
    BY <1>1, Division
<1>3. k \in Int /\ k <= q
    BY <1>2 DEF Hours
<1> HIDE DEF q
<1>4. k * Hour \in Int /\ q * Hour \in Int /\ k * Hour <= q * Hour
    BY <1>1, <1>2, <1>3, ProductsGrow
<1>5. QED
    BY <1>1, <1>2, <1>4 DEF StartOf

\* The first hour of a day comes with the day.
LEMMA DayStarts ==
    ASSUME NEW since \in Times, since % (Hour * HoursPerDay) = 0, NEW k \in Hours
    PROVE  k >= BucketOf(since) <=> DayOf(k) >= DayOf(BucketOf(since))
<1> DEFINE P == HoursPerDay
           n == Hour * P
           q == since \div n
           first == q * P
<1>1. Hour \in Nat \ {0} /\ P \in Nat \ {0} /\ since \in Nat /\ k \in Nat
    BY Constants, HourNat DEF Times
<1>2. \A x, y \in Nat \ {0} : x * y \in Nat \ {0}
    OBVIOUS
<1>3. n \in Nat \ {0}
    BY <1>1, <1>2
<1>4. since % n = 0
    OBVIOUS
<1>5. q \in Nat /\ since = q * n
  <2> HIDE DEF n
  <2>1. QED
      BY <1>1, <1>3, <1>4, Division, Remainder
<1> HIDE DEF q, P
<1>6. first \in Nat
    BY <1>1, <1>5
<1>7. q * n = first * Hour
    BY <1>1, <1>5
<1> HIDE DEF n
<1>8. BucketOf(since) = first
  <2> HIDE DEF first
  <2>1. first * Hour \in Nat
      BY <1>1, <1>6
  <2>2. first * Hour <= since /\ since < first * Hour + Hour
      BY <1>1, <1>5, <1>7, <2>1
  <2>3. QED
      BY <1>1, <1>6, <2>2, DivisionUnique DEF BucketOf
<1>9. first \div P = q
  <2>1. q * P <= first /\ first < q * P + P
      BY <1>1, <1>5, <1>6
  <2> HIDE DEF first
  <2>2. QED
      BY <1>1, <1>5, <1>6, <2>1, DivisionUnique
<1>10. ASSUME k >= first PROVE k \div P >= q
  <2>1. first <= k
      BY <1>1, <1>6, <1>10
  <2> HIDE DEF first
  <2>2. first \div P <= k \div P
      BY <1>1, <1>6, <2>1, DivisionMonotone
  <2>3. k \div P \in Nat
      BY <1>1, Division
  <2>4. QED
      BY <1>5, <1>9, <2>2, <2>3
<1>11. ASSUME k \div P >= q PROVE k >= first
  <2> DEFINE r == k \div P
  <2>1. r \in Nat /\ r * P <= k
      BY <1>1, Division
  <2>2. q <= r
      BY <1>5, <1>11, <2>1
  <2> HIDE DEF r
  <2>3. q * P \in Int /\ r * P \in Int /\ q * P <= r * P
      BY <1>1, <1>5, <2>1, <2>2, ProductsGrow
  <2>4. QED
      BY <1>1, <2>1, <2>3
<1> HIDE DEF first
<1>12. k >= first <=> k \div P >= first \div P
    BY <1>9, <1>10, <1>11
<1>13. QED
    BY <1>8, <1>12 DEF DayOf, P

\* A day is not greater than its hours.
LEMMA DayIn == ASSUME NEW h \in Hours PROVE DayOf(h) \in Hours
<1> DEFINE r == h \div HoursPerDay
<1>1. h \in Nat /\ HoursPerDay \in Nat \ {0} /\ End \in Nat /\ Hour \in Nat \ {0}
    BY Constants, HourNat
<1>2. r \in Nat /\ r * HoursPerDay <= h
    BY <1>1, Division
<1>3. End \div Hour \in Nat
    BY <1>1, Division
<1>4. h <= End \div Hour
    BY <1>3 DEF Hours
<1> HIDE DEF r
<1>5. 1 * r <= HoursPerDay * r /\ HoursPerDay * r \in Int
    BY <1>1, <1>2, ProductsGrow
<1>6. HoursPerDay * r = r * HoursPerDay /\ 1 * r = r
    BY <1>1, <1>2
<1>7. r <= h
    BY <1>1, <1>2, <1>5, <1>6
<1>8. QED
    BY <1>1, <1>2, <1>3, <1>4, <1>7 DEF DayOf, Hours, r

\* Adding up the days is adding up their hours.
Daily(e, f, L, D) ==
    /\ \A h \in Hours : f[h] \in Nat
    /\ D = {DayOf(h) : h \in L}
    /\ \A k \in Hours : DayOf(k) \in D => k \in L
    /\ \A d \in D : e[d] = SumOf(f, {k \in Hours : DayOf(k) = d})

LEMMA DaySums ==
    ASSUME NEW L \in SUBSET Hours, NEW D, NEW e, NEW f, Daily(e, f, L, D)
    PROVE  IsFiniteSet(D) /\ SumOf(e, D) = SumOf(f, L)
<1> USE DEF Daily
<1> DEFINE p == [k \in Hours |-> DayOf(k)]
           Of(d) == {k \in Hours : p[k] = d}
           all == {k \in Hours : p[k] \in D}
<1>1. IsFiniteSet(D)
  <2>1. D \subseteq Hours
      BY DayIn
  <2>2. QED
      BY <2>1, FiniteSets, FS_Subset
<1>2. \A d : {k \in Hours : DayOf(k) = d} = Of(d)
    OBVIOUS
<1>3. \A d \in D : e[d] = SumOf(f, Of(d))
    BY <1>2
<1>4. all = L
    OBVIOUS
<1>5. Parts(e, f, p, Hours, D)
    BY <1>3 DEF Parts
<1> HIDE DEF p, Daily
<1>6. SumOf(e, D) = SumOf(f, all)
    BY <1>1, <1>5, FiniteSets, SumParts
<1>7. QED
    BY <1>1, <1>4, <1>6

LEMMA DaysAddUp ==
    ASSUME Types, NEW since \in Times, since % (Hour * HoursPerDay) = 0
    PROVE  Total(SeriesByDay(since, End)) = Total(SeriesByHour(since, End))
<1> DEFINE L == {k \in Hours : k >= BucketOf(since) /\ StartOf(k) <= End}
           D == {DayOf(h) : h \in {k \in Hours : DayOf(k) >= DayOf(BucketOf(since))
                                                 /\ StartOf(k) <= End}}
           Of(d) == {k \in Hours : DayOf(k) = d}
           T == [h \in L |-> hourly[h]]
           W(d) == [h \in Of(d) |-> hourly[h]]
           B == [d \in D |-> Total(W(d))]
<1>1. SeriesByHour(since, End) = T
    BY DEF SeriesByHour
<1>2. SeriesByDay(since, End) = B
    BY DEF SeriesByDay
<1>3. L = {k \in Hours : DayOf(k) >= DayOf(BucketOf(since)) /\ StartOf(k) <= End}
    BY DayStarts
<1>4. L \in SUBSET Hours /\ \A d : Of(d) \in SUBSET Hours
    OBVIOUS
<1>5. D = {DayOf(h) : h \in L}
    BY <1>3
<1>6. \A k \in Hours : DayOf(k) \in D => k \in L
    BY <1>3, HoursStart
<1> HIDE DEF L, D, Of
<1>7. \A h \in Hours : /\ Requests(hourly)[h] = hourly[h].requests /\ Requests(hourly)[h] \in Nat
                       /\ Errors(hourly)[h] = hourly[h].errors /\ Errors(hourly)[h] \in Nat
                       /\ Latencies(hourly)[h] = hourly[h].latency /\ Latencies(hourly)[h] \in Nat
    BY DEF Types, BucketType, Requests, Errors, Latencies
<1>9. ASSUME NEW S \in SUBSET Hours, NEW Z, Z = [h \in S |-> hourly[h]]
      PROVE  /\ DOMAIN Z = S /\ IsFiniteSet(S) /\ Numeric(Z)
             /\ SumOf(Requests(Z), S) = SumOf(Requests(hourly), S)
             /\ SumOf(Errors(Z), S) = SumOf(Errors(hourly), S)
             /\ SumOf(Latencies(Z), S) = SumOf(Latencies(hourly), S)
  <2>1. /\ DOMAIN Z = S /\ IsFiniteSet(S) /\ Numeric(Z)
        /\ \A h \in S : /\ Requests(Z)[h] = hourly[h].requests
                        /\ Errors(Z)[h] = hourly[h].errors
                        /\ Latencies(Z)[h] = hourly[h].latency
      BY <1>9, BucketNumbers
  <2>2. \A h \in S : Requests(Z)[h] = Requests(hourly)[h]
      BY <1>7, <2>1
  <2>3. \A h \in S : Errors(Z)[h] = Errors(hourly)[h]
      BY <1>7, <2>1
  <2>4. \A h \in S : Latencies(Z)[h] = Latencies(hourly)[h]
      BY <1>7, <2>1
  <2>5. SumOf(Requests(Z), S) = SumOf(Requests(hourly), S)
      BY <2>1, <2>2, SumSame
  <2>6. SumOf(Errors(Z), S) = SumOf(Errors(hourly), S)
      BY <2>1, <2>3, SumSame
  <2>7. SumOf(Latencies(Z), S) = SumOf(Latencies(hourly), S)
      BY <2>1, <2>4, SumSame
  <2>8. QED
      BY <2>1, <2>5, <2>6, <2>7
<1>10. \A d \in D : /\ B[d] = Total(W(d)) /\ Total(W(d)) \in TallyType
                    /\ Total(W(d)).requests = SumOf(Requests(hourly), Of(d))
                    /\ Total(W(d)).errors = SumOf(Errors(hourly), Of(d))
                    /\ Total(W(d)).latency = SumOf(Latencies(hourly), Of(d))
  <2> SUFFICES ASSUME NEW d \in D
               PROVE  /\ B[d] = Total(W(d)) /\ Total(W(d)) \in TallyType
                      /\ Total(W(d)).requests = SumOf(Requests(hourly), Of(d))
                      /\ Total(W(d)).errors = SumOf(Errors(hourly), Of(d))
                      /\ Total(W(d)).latency = SumOf(Latencies(hourly), Of(d))
      OBVIOUS
  <2> DEFINE Z == W(d)
             S == Of(d)
  <2>1. B[d] = Total(Z)
      OBVIOUS
  <2>2. S \in SUBSET Hours /\ Z = [h \in S |-> hourly[h]]
      BY <1>4
  <2> HIDE DEF Z, S, W
  <2>3. /\ DOMAIN Z = S /\ IsFiniteSet(S) /\ Numeric(Z)
        /\ SumOf(Requests(Z), S) = SumOf(Requests(hourly), S)
        /\ SumOf(Errors(Z), S) = SumOf(Errors(hourly), S)
        /\ SumOf(Latencies(Z), S) = SumOf(Latencies(hourly), S)
      BY <1>9, <2>2
  <2>4. Total(Z) \in TallyType
      BY <2>3, TotalType
  <2>5. /\ Total(Z).requests = SumOf(Requests(Z), S)
        /\ Total(Z).errors = SumOf(Errors(Z), S)
        /\ Total(Z).latency = SumOf(Latencies(Z), S)
      BY <2>3, TotalRequests, TotalErrors, TotalLatencies
  <2>6. QED
      BY <2>1, <2>3, <2>4, <2>5 DEF Z, S
<1>11. DOMAIN B = D /\ \A d \in D : B[d] \in TallyType
    BY <1>10
<1>12. /\ DOMAIN T = L /\ IsFiniteSet(L) /\ Numeric(T)
       /\ SumOf(Requests(T), L) = SumOf(Requests(hourly), L)
       /\ SumOf(Errors(T), L) = SumOf(Errors(hourly), L)
       /\ SumOf(Latencies(T), L) = SumOf(Latencies(hourly), L)
    BY <1>4, <1>9
<1>13. \A d \in D : /\ Requests(B)[d] = SumOf(Requests(hourly), Of(d))
                    /\ Errors(B)[d] = SumOf(Errors(hourly), Of(d))
                    /\ Latencies(B)[d] = SumOf(Latencies(hourly), Of(d))
  <2> HIDE DEF B, W
  <2>1. QED
      BY <1>10, <1>11 DEF Requests, Errors, Latencies
<1>14. Numeric(B)
  <2> HIDE DEF B
  <2>1. QED
      BY <1>11 DEF Numeric, TallyType
<1> HIDE DEF B, W, T
<1>15. IsFiniteSet(D) /\ SumOf(Requests(B), D) = SumOf(Requests(hourly), L)
  <2> DEFINE e == Requests(B)
             f == Requests(hourly)
  <2>1. \A d \in D : e[d] = SumOf(f, {k \in Hours : DayOf(k) = d})
      BY <1>13 DEF Of
  <2>2. \A h \in Hours : f[h] \in Nat
      BY <1>7
  <2> HIDE DEF e, f
  <2>3. Daily(e, f, L, D)
      BY <1>5, <1>6, <2>1, <2>2 DEF Daily
  <2>4. IsFiniteSet(D) /\ SumOf(e, D) = SumOf(f, L)
      BY <1>4, <2>3, DaySums
  <2>5. QED
      BY <2>4 DEF e, f
<1>16. SumOf(Errors(B), D) = SumOf(Errors(hourly), L)
  <2> DEFINE e == Errors(B)
             f == Errors(hourly)
  <2>1. \A d \in D : e[d] = SumOf(f, {k \in Hours : DayOf(k) = d})
      BY <1>13 DEF Of
  <2>2. \A h \in Hours : f[h] \in Nat
      BY <1>7
  <2> HIDE DEF e, f
  <2>3. Daily(e, f, L, D)
      BY <1>5, <1>6, <2>1, <2>2 DEF Daily
  <2>4. SumOf(e, D) = SumOf(f, L)
      BY <1>4, <2>3, DaySums
  <2>5. QED
      BY <2>4 DEF e, f
<1>17. SumOf(Latencies(B), D) = SumOf(Latencies(hourly), L)
  <2> DEFINE e == Latencies(B)
             f == Latencies(hourly)
  <2>1. \A d \in D : e[d] = SumOf(f, {k \in Hours : DayOf(k) = d})
      BY <1>13 DEF Of
  <2>2. \A h \in Hours : f[h] \in Nat
      BY <1>7
  <2> HIDE DEF e, f
  <2>3. Daily(e, f, L, D)
      BY <1>5, <1>6, <2>1, <2>2 DEF Daily
  <2>4. SumOf(e, D) = SumOf(f, L)
      BY <1>4, <2>3, DaySums
  <2>5. QED
      BY <2>4 DEF e, f
<1>18. Total(B) = [requests |-> SumOf(Requests(B), D), errors |-> SumOf(Errors(B), D),
                   latency |-> SumOf(Latencies(B), D)]
    BY <1>11, <1>14, <1>15, TotalType
<1>19. Total(T) = [requests |-> SumOf(Requests(T), L), errors |-> SumOf(Errors(T), L),
                   latency |-> SumOf(Latencies(T), L)]
    BY <1>12, TotalType
<1>20. Total(B) = Total(T)
    BY <1>12, <1>15, <1>16, <1>17, <1>18, <1>19
<1>21. QED
    BY <1>1, <1>2, <1>20

-----------------------------------------------------------------------------
(***************************************************************************)
(* The truth: the rows of a set of hours, counted hour by hour.            *)
(***************************************************************************)
LEMMA RowsOfHours ==
    ASSUME Types, NEW S \in SUBSET Hours, NEW e, \A h \in S : e[h] = RowsIn(h)
    PROVE  SumOf(e, S) = Cardinality({l \in rows : BucketOf(At[l]) \in S})
<1> DEFINE f == [l \in rows |-> 1]
           p == [l \in rows |-> BucketOf(At[l])]
           Of(h) == {l \in rows : p[l] = h}
           all == {l \in rows : p[l] \in S}
<1>1. rows \in SUBSET Logs /\ IsFiniteSet(rows)
    BY FiniteRows DEF Types
<1>2. IsFiniteSet(S)
    BY FiniteSets, FS_Subset
<1>3. \A h : Of(h) \in SUBSET Logs /\ RowsIn(h) = Cardinality(Of(h))
                                   /\ \A l \in Of(h) : f[l] = 1
    BY <1>1 DEF RowsIn
<1>4. all \in SUBSET Logs /\ (\A l \in all : f[l] = 1)
      /\ all = {l \in rows : BucketOf(At[l]) \in S}
    BY <1>1
<1>5. \A l \in rows : f[l] \in Nat
    OBVIOUS
<1> HIDE DEF f, p
<1>6. \A h : SumOf(f, Of(h)) = RowsIn(h)
  <2> SUFFICES ASSUME NEW h PROVE SumOf(f, Of(h)) = RowsIn(h)
      OBVIOUS
  <2> DEFINE w == Of(h)
  <2>1. IsFiniteSet(w) /\ (\A l \in w : f[l] = 1) /\ RowsIn(h) = Cardinality(w)
      BY <1>3, FiniteRows
  <2> HIDE DEF w
  <2>2. SumOf(f, w) = Cardinality(w)
      BY <2>1, SumOnes
  <2>3. QED
      BY <2>1, <2>2 DEF w
<1>7. Parts(e, f, p, rows, S)
    BY <1>5, <1>6 DEF Parts
<1>8. SumOf(e, S) = SumOf(f, all)
    BY <1>1, <1>2, <1>7, SumParts
<1> HIDE DEF all
<1>9. SumOf(f, all) = Cardinality(all)
    BY <1>4, FiniteRows, SumOnes
<1>10. QED
    BY <1>4, <1>8, <1>9

\* Requests of a window, as the sum over its buckets.
LEMMA WindowRequests ==
    ASSUME Types, NEW S \in SUBSET Hours, NEW T, T = [h \in S |-> hourly[h]]
    PROVE  /\ IsFiniteSet(S) /\ Total(T).requests = SumOf(Requests(T), S)
           /\ \A h \in S : Requests(T)[h] = hourly[h].requests /\ Requests(T)[h] \in Nat
<1>1. /\ DOMAIN T = S /\ IsFiniteSet(S)
      /\ \A h \in S : Requests(T)[h] = hourly[h].requests /\ hourly[h].requests \in Nat
    BY BucketNumbers
<1>2. QED
    BY <1>1, TotalRequests

\* A row was made within the hour of its bucket.
LEMMA BucketBounds ==
    ASSUME NEW t \in Int
    PROVE  /\ BucketOf(t) \in Int /\ StartOf(BucketOf(t)) \in Int
           /\ StartOf(BucketOf(t)) <= t /\ t < StartOf(BucketOf(t)) + Hour
<1>1. Hour \in Nat \ {0}
    BY Constants
<1> DEFINE q == t \div Hour
<1>2. q \in Int /\ q * Hour <= t /\ t < q * Hour + Hour
    BY <1>1, Division
<1> HIDE DEF q
<1>3. q * Hour \in Int
    BY <1>1, <1>2
<1>4. QED
    BY <1>2, <1>3 DEF BucketOf, StartOf, q

\* The dashboard counts no more than the rows of its window.
LEMMA DashboardBelow ==
    ASSUME IInv, backfill.at = "done", inserted = Nothing, meanwhile = {},
           NEW since \in now - Retention .. now
    PROVE  Dashboard(since).total.requests <= Cardinality({l \in rows : At[l] >= since})
<1> DEFINE S == {h \in Hours : StartOf(h) >= since}
           T == [h \in S |-> hourly[h]]
           e == [h \in S |-> RowsIn(h)]
           mine == {l \in rows : BucketOf(At[l]) \in S}
           exact == {l \in rows : At[l] >= since}
<1>1. Types /\ CountedOnce
    BY DEF IInv
<1>2. now \in Nat /\ Retention \in Nat /\ since \in Int /\ now - Retention <= since
    BY <1>1, Constants DEF Types
<1>3. Dashboard(since).total = Total(T)
    BY DEF Dashboard
<1>4. S \in SUBSET Hours
    OBVIOUS
<1>5. \A h \in S : hourly[h].requests <= RowsIn(h) /\ RowsIn(h) \in Nat
  <2> SUFFICES ASSUME NEW h \in S PROVE hourly[h].requests <= RowsIn(h) /\ RowsIn(h) \in Nat
      OBVIOUS
  <2>1. StartOf(h) \in Nat /\ StartOf(h) >= since
      BY HourNat
  <2>2. StartOf(h) >= now - Retention
      BY <1>2, <2>1
  <2>3. CertainIn(h) = {l \in rows : BucketOf(At[l]) = h}
      BY <2>2, DoneIsCertain
  <2>4. Undisturbed
      BY DEF Undisturbed
  <2>5. hourly[h].requests <= Cardinality(CertainIn(h))
      BY <1>1, <2>4 DEF CountedOnce
  <2>6. Cardinality(CertainIn(h)) \in Nat
      BY <1>1, CertainFinite
  <2>7. QED
      BY <2>3, <2>5, <2>6 DEF RowsIn
<1>6. /\ IsFiniteSet(S) /\ Total(T).requests = SumOf(Requests(T), S)
      /\ \A h \in S : Requests(T)[h] = hourly[h].requests /\ Requests(T)[h] \in Nat
    BY <1>1, <1>4, WindowRequests
<1>7. \A h \in S : e[h] = RowsIn(h)
    OBVIOUS
<1>8. mine \in SUBSET exact /\ exact \in SUBSET Logs /\ mine \in SUBSET Logs
  <2>1. rows \in SUBSET Logs
      BY <1>1 DEF Types
  <2>2. ASSUME NEW l \in rows, StartOf(BucketOf(At[l])) >= since PROVE At[l] >= since
    <3>1. At[l] \in Int
        BY <2>1, LogTimes
    <3>2. StartOf(BucketOf(At[l])) \in Int /\ StartOf(BucketOf(At[l])) <= At[l]
        BY <3>1, BucketBounds
    <3>3. QED
        BY <1>2, <2>2, <3>1, <3>2
  <2>3. QED
      BY <2>1, <2>2
<1>9. /\ Cardinality(mine) \in Nat /\ Cardinality(exact) \in Nat /\ IsFiniteSet(exact)
    BY <1>8, FiniteRows
<1> HIDE DEF S, T, e
<1>10. SumOf(e, S) = Cardinality(mine)
    BY <1>1, <1>4, <1>7, RowsOfHours
<1> HIDE DEF mine, exact
<1>11. Cardinality(mine) <= Cardinality(exact)
    BY <1>8, <1>9, FS_Subset
<1>12. SumOf(Requests(T), S) <= SumOf(e, S)
  <2> DEFINE f == Requests(T)
  <2>1. \A h \in S : f[h] \in Nat /\ e[h] \in Nat /\ f[h] <= e[h]
      BY <1>5, <1>6, <1>7
  <2> HIDE DEF f
  <2>2. SumOf(f, S) <= SumOf(e, S)
      BY <1>6, <2>1, SumMono
  <2>3. QED
      BY <2>2 DEF f
<1>13. SumOf(Requests(T), S) \in Nat
    BY <1>6, SumNat
<1>14. Total(T).requests <= Cardinality(exact)
    BY <1>6, <1>9, <1>10, <1>11, <1>12, <1>13
<1>15. QED
    BY <1>3, <1>14 DEF exact

\* The series counts at least the rows of its window.
LEMMA SeriesAbove ==
    ASSUME IInv, backfill.at = "done", inserted = Nothing,
           NEW since \in now - Retention .. now, since >= now - Retention + Hour
    PROVE  Cardinality({l \in rows : At[l] >= since}) <= Total(SeriesByHour(since, now)).requests
<1> DEFINE S == {k \in Hours : k >= BucketOf(since) /\ StartOf(k) <= now}
           T == [h \in S |-> hourly[h]]
           e == [h \in S |-> RowsIn(h)]
           mine == {l \in rows : BucketOf(At[l]) \in S}
           exact == {l \in rows : At[l] >= since}
<1>1. Types /\ AllCounted /\ RowsKnown
    BY DEF IInv
<1>2. now \in Nat /\ Retention \in Nat /\ since \in Int /\ Hour \in Nat \ {0}
    BY <1>1, Constants DEF Types
<1>3. SeriesByHour(since, now) = T
    BY DEF SeriesByHour
<1>4. S \in SUBSET Hours
    OBVIOUS
<1>5. \A h \in S : RowsIn(h) <= hourly[h].requests /\ RowsIn(h) \in Nat
  <2> SUFFICES ASSUME NEW h \in S PROVE RowsIn(h) <= hourly[h].requests /\ RowsIn(h) \in Nat
      OBVIOUS
  <2>1. h \in Nat /\ StartOf(h) \in Nat /\ h >= BucketOf(since)
      BY HourNat
  <2>2. /\ BucketOf(since) \in Int /\ StartOf(BucketOf(since)) \in Int
        /\ since < StartOf(BucketOf(since)) + Hour
      BY <1>2, BucketBounds
  <2> DEFINE q == BucketOf(since)
  <2>3. q \in Int /\ q <= h
      BY <2>1, <2>2
  <2> HIDE DEF q
  <2>4. q * Hour <= h * Hour
      BY <1>2, <2>1, <2>3, ProductsGrow
  <2>5. StartOf(q) <= StartOf(h)
      BY <2>4 DEF StartOf
  <2>6. StartOf(h) >= now - Retention
      BY <1>2, <2>1, <2>2, <2>5 DEF q
  <2>7. CertainIn(h) = {l \in rows : BucketOf(At[l]) = h}
      BY <2>6, DoneIsCertain
  <2>8. hourly[h].requests >= Cardinality(CertainIn(h))
      BY <1>1, <2>6 DEF AllCounted
  <2>9. Cardinality(CertainIn(h)) \in Nat /\ hourly[h].requests \in Nat
      BY <1>1, CertainFinite DEF Types, BucketType
  <2>10. QED
      BY <2>7, <2>8, <2>9 DEF RowsIn
<1>6. /\ IsFiniteSet(S) /\ Total(T).requests = SumOf(Requests(T), S)
      /\ \A h \in S : Requests(T)[h] = hourly[h].requests /\ Requests(T)[h] \in Nat
    BY <1>1, <1>4, WindowRequests
<1>7. \A h \in S : e[h] = RowsIn(h)
    OBVIOUS
<1>8. exact \in SUBSET mine /\ exact \in SUBSET Logs /\ mine \in SUBSET Logs
  <2>1. rows \in SUBSET Logs
      BY <1>1 DEF Types
  <2>2. ASSUME NEW l \in rows, At[l] >= since
        PROVE  BucketOf(At[l]) \in Hours /\ BucketOf(At[l]) >= BucketOf(since)
               /\ StartOf(BucketOf(At[l])) <= now
    <3>1. At[l] \in Int /\ At[l] <= now
        BY <1>1, <2>1, LogTimes DEF RowsKnown
    <3>2. StartOf(BucketOf(At[l])) \in Int /\ StartOf(BucketOf(At[l])) <= At[l]
          /\ BucketOf(At[l]) \in Int /\ BucketOf(since) \in Int
        BY <1>2, <3>1, BucketBounds
    <3>3. since <= At[l]
        BY <1>2, <2>2, <3>1
    <3>4. since \div Hour <= At[l] \div Hour
        BY <1>2, <3>1, <3>3, DivisionMonotone
    <3>5. BucketOf(At[l]) >= BucketOf(since)
        BY <3>2, <3>4 DEF BucketOf
    <3>6. BucketOf(At[l]) \in Hours
        BY <2>1, BucketOfLog
    <3>7. QED
        BY <1>2, <3>1, <3>2, <3>5, <3>6
  <2>3. QED
      BY <2>1, <2>2
<1>9. /\ Cardinality(mine) \in Nat /\ Cardinality(exact) \in Nat /\ IsFiniteSet(mine)
    BY <1>8, FiniteRows
<1> HIDE DEF S, T, e
<1>10. SumOf(e, S) = Cardinality(mine)
    BY <1>1, <1>4, <1>7, RowsOfHours
<1> HIDE DEF mine, exact
<1>11. Cardinality(exact) <= Cardinality(mine)
    BY <1>8, <1>9, FS_Subset
<1>12. SumOf(e, S) <= SumOf(Requests(T), S)
  <2> DEFINE f == Requests(T)
  <2>1. \A h \in S : e[h] \in Nat /\ f[h] \in Nat /\ e[h] <= f[h]
      BY <1>5, <1>6, <1>7
  <2> HIDE DEF f
  <2>2. SumOf(e, S) <= SumOf(f, S)
      BY <1>6, <2>1, SumMono
  <2>3. QED
      BY <2>2 DEF f
<1>13. SumOf(Requests(T), S) \in Nat
    BY <1>6, SumNat
<1>14. Cardinality(exact) <= Total(T).requests
    BY <1>6, <1>9, <1>10, <1>11, <1>12, <1>13
<1>15. QED
    BY <1>3, <1>14 DEF exact

\* For any rows and windows: the dashboard's breakdowns add up to its totals and
\* the days of a series to its hours, in every state; and when the backfill had
\* the table to itself, dashboard and series enclose the number of rows in the
\* window (DashboardStats, TimeSeries).
THEOREM ViewsAgree == Spec => []ReadersAgree
<1>1. IInv => ReadersAgree
  <2> SUFFICES ASSUME IInv PROVE ReadersAgree
      OBVIOUS
  <2>1. Types /\ AllBalanced
      BY DEF IInv
  <2>2. ASSUME NEW since \in Times, NEW d \in Dims
        PROVE  Total(Dashboard(since).by[d]) = Dashboard(since).total
    <3> DEFINE S == {h \in Hours : StartOf(h) >= since}
    <3>1. Dashboard(since).total = Total([h \in S |-> hourly[h]])
        BY DEF Dashboard
    <3>2. Dashboard(since).by[d] = [n \in Names |-> Total([h \in S |-> hourly[h].by[d][n]])]
        BY DEF Dashboard
    <3>3. S \in SUBSET Hours
        OBVIOUS
    <3> HIDE DEF S
    <3>4. QED
        BY <2>1, <3>1, <3>2, <3>3, BreakdownsAddUp
  <2>3. ASSUME NEW since \in Times, since % (Hour * HoursPerDay) = 0
        PROVE  Total(SeriesByDay(since, End)) = Total(SeriesByHour(since, End))
      BY <2>1, <2>3, DaysAddUp
  <2>4. ASSUME backfill.at = "done", inserted = Nothing, meanwhile = {},
               NEW since \in now - Retention .. now
        PROVE  /\ Dashboard(since).total.requests <= Cardinality({l \in rows : At[l] >= since})
               /\ since >= now - Retention + Hour
                  => Cardinality({l \in rows : At[l] >= since})
                     <= Total(SeriesByHour(since, now)).requests
      BY <2>4, DashboardBelow, SeriesAbove
  <2>5. QED
      BY <2>2, <2>3, <2>4 DEF ReadersAgree
<1>2. QED
    BY <1>1, Invariance, PTL
=============================================================================
