---------------------------- MODULE MetricsProofs ---------------------------
(***************************************************************************)
(* Theorems about Metrics, for any number of samples and any order of      *)
(* their arrival: the percentiles' index is in range, where the rank is    *)
(* the nearest one, sorting permutes the samples, the reported quantiles   *)
(* are quantiles of what was observed, and a comparison tells all and the  *)
(* true direction of a change.                                             *)
(***************************************************************************)
EXTENDS Metrics, TLAPS, FiniteSetTheorems

Ascending(s) == \A i, j \in 1 .. Len(s) : i <= j => s[i] <= s[j]

(* percentile never reads outside of the slice, and grows with the quantile. *)
THEOREM RankInRange ==
  ASSUME NEW n \in Nat \ {0}
  PROVE  /\ \A p \in Quantiles : Rank(p, n) \in 0 .. n - 1
         /\ Rank(50, n) <= Rank(95, n) /\ Rank(95, n) <= Rank(99, n)
  BY DEF Rank, Quantiles

(* Enough of the samples are on either side of the r-th. *)
LEMMA RankIsQuantile ==
  ASSUME NEW n \in Nat \ {0}, NEW p \in Quantiles, NEW r, r = Rank(p, n) + 1
  PROVE  /\ r \in 1 .. n /\ p \in Nat
         /\ 100 * r >= p * n /\ 100 * (n - r + 1) >= (100 - p) * n
  BY DEF Rank, Quantiles

(* The places of the three quantiles, counted from 1. *)
LEMMA RanksInOrder ==
  ASSUME NEW n \in Nat \ {0}, NEW a, NEW b, NEW c,
         a = Rank(50, n) + 1, b = Rank(95, n) + 1, c = Rank(99, n) + 1
  PROVE  /\ a \in 1 .. n /\ b \in 1 .. n /\ c \in 1 .. n
         /\ a <= b /\ b <= c /\ c <= n /\ n \in 1 .. n
  <1>1. a \in 1 .. n /\ b \in 1 .. n /\ c \in 1 .. n
    BY RankIsQuantile DEF Quantiles
  <1>2. a <= b /\ b <= c /\ c <= n /\ n \in 1 .. n
    BY <1>1 DEF Rank
  <1>3. QED
    BY <1>1, <1>2

(* Against the definition the comment names: the nearest rank is the least k,
   counted from 1, with k/n at least p/100. The code takes that one, unless p
   percent of n is whole, and then the one after. *)
THEOREM RankAndNearest ==
  ASSUME NEW n \in Nat \ {0}, NEW p \in Quantiles, NEW k \in 1 .. n,
         100 * k >= p * n, 100 * (k - 1) < p * n
  PROVE  Rank(p, n) + 1 = IF 100 * k = p * n THEN k + 1 ELSE k
  BY DEF Rank, Quantiles

LEMMA MicrosMonotone ==
  ASSUME NEW a \in Nat, NEW b \in Nat, a <= b
  PROVE  Micros(a) <= Micros(b) /\ Micros(a) \in Nat /\ Micros(b) \in Nat
  BY DEF Micros

(* So many of the samples of a sorted slice are on either side of the r-th. *)
LEMMA OnEitherSide ==
  ASSUME NEW s \in Seq(Nat), Ascending(s), NEW r \in 1 .. Len(s), NEW v, v = Micros(s[r])
  PROVE  /\ Cardinality(AtMost(s, v)) \in Nat /\ Cardinality(AtMost(s, v)) >= r
         /\ Cardinality(AtLeast(s, v)) \in Nat /\ Cardinality(AtLeast(s, v)) >= Len(s) - r + 1
  <1>1. Len(s) \in Nat /\ \A i \in 1 .. Len(s) : s[i] \in Nat
    OBVIOUS
  <1>2. 1 .. r \subseteq AtMost(s, v)
    <2> SUFFICES ASSUME NEW i \in 1 .. r
                 PROVE  i \in AtMost(s, v)
      OBVIOUS
    <2>1. i \in 1 .. Len(s) /\ s[i] <= s[r] /\ s[i] \in Nat /\ s[r] \in Nat
      BY <1>1 DEF Ascending
    <2>2. Micros(s[i]) <= Micros(s[r])
      BY <2>1, MicrosMonotone
    <2>3. QED
      BY <2>1, <2>2 DEF AtMost
  <1>3. r .. Len(s) \subseteq AtLeast(s, v)
    <2> SUFFICES ASSUME NEW i \in r .. Len(s)
                 PROVE  i \in AtLeast(s, v)
      OBVIOUS
    <2>1. i \in 1 .. Len(s) /\ s[r] <= s[i] /\ s[i] \in Nat /\ s[r] \in Nat
      BY <1>1 DEF Ascending
    <2>2. Micros(s[r]) <= Micros(s[i]) /\ Micros(s[r]) \in Nat /\ Micros(s[i]) \in Nat
      BY <2>1, MicrosMonotone
    <2>3. QED
      BY <2>1, <2>2 DEF AtLeast
  <1>4. /\ IsFiniteSet(1 .. Len(s))
        /\ Cardinality(1 .. r) = r /\ Cardinality(r .. Len(s)) = Len(s) - r + 1
    <2>1. 1 \in Int /\ r \in Int /\ Len(s) \in Int /\ ~(1 > r) /\ ~(r > Len(s))
      BY <1>1
    <2>2. r - 1 + 1 = r
      BY <2>1
    <2>3. QED
      BY <2>1, <2>2, FS_Interval
  <1>5. IsFiniteSet(AtMost(s, v)) /\ IsFiniteSet(AtLeast(s, v))
    <2>1. AtMost(s, v) \subseteq 1 .. Len(s) /\ AtLeast(s, v) \subseteq 1 .. Len(s)
      BY DEF AtMost, AtLeast
    <2>2. QED
      BY <1>4, <2>1, FS_Subset
  <1>6. Cardinality(AtMost(s, v)) \in Nat /\ Cardinality(AtLeast(s, v)) \in Nat
    BY <1>5, FS_CardinalityType
  <1>7. Cardinality(1 .. r) <= Cardinality(AtMost(s, v))
    BY <1>2, <1>5, FS_Subset
  <1>8. Cardinality(r .. Len(s)) <= Cardinality(AtLeast(s, v))
    BY <1>3, <1>5, FS_Subset
  <1>9. QED
    BY <1>1, <1>4, <1>6, <1>7, <1>8

(* Of a sorted slice percentile returns a sample with at least p percent at or
   below it and at least 100 - p percent at or above it. *)
THEOREM QuantileOfSorted ==
  ASSUME NEW s \in Seq(Nat), s # <<>>, Ascending(s), NEW p \in Quantiles
  PROVE  IsQuantile(s, p, Micros(Percentile(s, p)))
  <1>1. Len(s) \in Nat \ {0}
    OBVIOUS
  <1>2. PICK r, v : r = Rank(p, Len(s)) + 1 /\ v = Micros(Percentile(s, p))
    OBVIOUS
  <1>3. /\ r \in 1 .. Len(s) /\ p \in Nat
        /\ 100 * r >= p * Len(s) /\ 100 * (Len(s) - r + 1) >= (100 - p) * Len(s)
    BY <1>1, <1>2, RankIsQuantile
  <1>4. v = Micros(s[r])
    BY <1>2 DEF Percentile
  <1>5. /\ Cardinality(AtMost(s, v)) \in Nat /\ Cardinality(AtMost(s, v)) >= r
        /\ Cardinality(AtLeast(s, v)) \in Nat /\ Cardinality(AtLeast(s, v)) >= Len(s) - r + 1
    BY <1>3, <1>4, OnEitherSide
  <1>6. IsQuantile(s, p, v)
    BY <1>1, <1>3, <1>4, <1>5 DEF Quantiles, IsQuantile
  <1>7. QED
    BY <1>2, <1>6

(* The reported quantiles are in order, and none is above the maximum. *)
THEOREM QuantilesInOrder ==
  ASSUME NEW s \in Seq(Nat), s # <<>>, Ascending(s)
  PROVE  /\ Micros(Percentile(s, 50)) <= Micros(Percentile(s, 95))
         /\ Micros(Percentile(s, 95)) <= Micros(Percentile(s, 99))
         /\ Micros(Percentile(s, 99)) <= Micros(s[Len(s)])
  <1>1. Len(s) \in Nat \ {0} /\ \A i \in 1 .. Len(s) : s[i] \in Nat
    OBVIOUS
  <1>2. ASSUME NEW i \in 1 .. Len(s), NEW j \in 1 .. Len(s), i <= j
        PROVE  Micros(s[i]) <= Micros(s[j])
    <2>1. s[i] \in Nat /\ s[j] \in Nat /\ s[i] <= s[j]
      BY <1>1, <1>2 DEF Ascending
    <2>2. QED
      BY <2>1, MicrosMonotone
  <1>3. PICK a, b, c : /\ a = Rank(50, Len(s)) + 1 /\ b = Rank(95, Len(s)) + 1
                       /\ c = Rank(99, Len(s)) + 1
    OBVIOUS
  <1>4. /\ a \in 1 .. Len(s) /\ b \in 1 .. Len(s) /\ c \in 1 .. Len(s)
        /\ a <= b /\ b <= c /\ c <= Len(s) /\ Len(s) \in 1 .. Len(s)
    BY <1>1, <1>3, RanksInOrder
  <1>5. Percentile(s, 50) = s[a] /\ Percentile(s, 95) = s[b] /\ Percentile(s, 99) = s[c]
    BY <1>3 DEF Percentile
  <1>6. QED
    BY <1>2, <1>4, <1>5
-----------------------------------------------------------------------------
(* Sorting. *)

\* The samples that come up to the place of the i-th.
UpTo(s, i) == {j \in DOMAIN s : s[j] < s[i] \/ (s[j] = s[i] /\ j <= i)}

(* No two samples share a place, and a greater one comes later. *)
LEMMA PlacesDiffer ==
  ASSUME NEW s \in Seq(Nat)
  PROVE  /\ \A i \in DOMAIN s : Place(s, i) \in DOMAIN s
         /\ \A i, j \in DOMAIN s : s[i] < s[j] \/ (s[i] = s[j] /\ i < j) =>
                                    Place(s, i) < Place(s, j)
  <1>1. /\ Len(s) \in Nat /\ DOMAIN s = 1 .. Len(s) /\ \A i \in DOMAIN s : s[i] \in Nat
        /\ \A i \in DOMAIN s : i \in Nat
    OBVIOUS
  <1>2. IsFiniteSet(DOMAIN s) /\ Cardinality(DOMAIN s) = Len(s)
    <2>1. 1 \in Int /\ Len(s) \in Int /\ (1 > Len(s) => Len(s) = 0) /\ Len(s) - 1 + 1 = Len(s)
      BY <1>1
    <2>2. QED
      BY <1>1, <2>1, FS_Interval
  <1>3. ASSUME NEW i \in DOMAIN s
        PROVE  /\ IsFiniteSet(UpTo(s, i)) /\ Cardinality(UpTo(s, i)) \in 1 .. Len(s)
               /\ Place(s, i) = Cardinality(UpTo(s, i))
    <2>1. UpTo(s, i) \subseteq DOMAIN s /\ i \in UpTo(s, i)
      BY <1>1, <1>3 DEF UpTo
    <2>2. /\ IsFiniteSet(UpTo(s, i)) /\ Cardinality(UpTo(s, i)) <= Len(s)
          /\ Cardinality(UpTo(s, i)) \in Nat
      BY <1>2, <2>1, FS_Subset, FS_CardinalityType
    <2>3. Cardinality(UpTo(s, i)) # 0
      BY <2>1, <2>2, FS_EmptySet
    <2>4. QED
      BY <1>1, <2>2, <2>3 DEF UpTo, Place
  <1>4. ASSUME NEW i \in DOMAIN s, NEW j \in DOMAIN s, s[i] < s[j] \/ (s[i] = s[j] /\ i < j)
        PROVE  Place(s, i) < Place(s, j)
    <2>1. UpTo(s, i) \subseteq UpTo(s, j) /\ j \in UpTo(s, j) /\ j \notin UpTo(s, i)
      BY <1>1, <1>4 DEF UpTo
    <2>2. Cardinality(UpTo(s, i)) < Cardinality(UpTo(s, j))
      BY <1>3, <2>1, FS_Subset
    <2>3. QED
      BY <1>3, <2>2
  <1>5. QED
    BY <1>1, <1>3, <1>4

(* Sorting permutes the samples into ascending order. *)
THEOREM SortedPermutes ==
  ASSUME NEW s \in Seq(Nat)
  PROVE  /\ Sorted(s) \in Seq(Nat) /\ Len(Sorted(s)) = Len(s) /\ Ascending(Sorted(s))
         /\ \E at \in Bijection(1 .. Len(s), 1 .. Len(s)) :
              \A k \in 1 .. Len(s) : Sorted(s)[k] = s[at[k]]
  <1> DEFINE D == 1 .. Len(s)
             placing == [i \in D |-> Place(s, i)]
             at == [k \in D |-> CHOOSE i \in D : Place(s, i) = k]
  <1>1. Len(s) \in Nat /\ DOMAIN s = D /\ (\A i \in D : s[i] \in Nat) /\ D \subseteq Nat
    OBVIOUS
  <1>2. \A i \in D : Place(s, i) \in D
    BY <1>1, PlacesDiffer
  <1>3. \A i, j \in D : s[i] < s[j] \/ (s[i] = s[j] /\ i < j) => Place(s, i) < Place(s, j)
    BY <1>1, PlacesDiffer
  <1>4. \A i, j \in D : Place(s, i) = Place(s, j) => i = j
    <2> SUFFICES ASSUME NEW i \in D, NEW j \in D, Place(s, i) = Place(s, j), i # j
                 PROVE  FALSE
      OBVIOUS
    <2>1. Place(s, i) \in Nat /\ Place(s, j) \in Nat /\ s[i] \in Nat /\ s[j] \in Nat
          /\ i \in Nat /\ j \in Nat
      BY <1>1, <1>2
    <2>2. s[i] < s[j] \/ (s[i] = s[j] /\ i < j) \/ s[j] < s[i] \/ (s[j] = s[i] /\ j < i)
      BY <2>1
    <2>3. Place(s, i) < Place(s, j) \/ Place(s, j) < Place(s, i)
      BY <1>3, <2>2
    <2>4. QED
      BY <2>1, <2>3
  <1>5. placing \in Injection(D, D)
    BY <1>2, <1>4 DEF Injection, IsInjective
  <1>6. IsFiniteSet(D)
    <2>1. 1 \in Int /\ Len(s) \in Int
      BY <1>1
    <2>2. QED
      BY <2>1, FS_Interval
  <1>7. placing \in Surjection(D, D)
    BY <1>5, <1>6, FS_Injection
  <1>8. \A k \in D : \E i \in D : Place(s, i) = k
    BY <1>7 DEF Surjection
  <1>9. \A k \in D : at[k] \in D /\ Place(s, at[k]) = k
    BY <1>8
  <1>10. at \in Bijection(D, D)
    <2>1. at \in [D -> D] /\ \A k, l \in D : at[k] = at[l] => k = l
      BY <1>9
    <2>2. \A i \in D : at[Place(s, i)] = i
      BY <1>2, <1>4, <1>9
    <2>3. \A i \in D : \E k \in D : at[k] = i
      BY <1>2, <2>2
    <2>4. QED
      BY <2>1, <2>3 DEF Bijection, Injection, Surjection, IsInjective
  <1>11. Sorted(s) = [k \in D |-> s[at[k]]]
    <2>1. ASSUME NEW k \in D
          PROVE  (CHOOSE i \in DOMAIN s : <<i, k>> \in {<<j, Place(s, j)>> : j \in DOMAIN s}) = at[k]
      <3>1. \A i \in D : <<i, k>> \in {<<j, Place(s, j)>> : j \in D} <=> Place(s, i) = k
        OBVIOUS
      <3>2. \A i : i \in D /\ <<i, k>> \in {<<j, Place(s, j)>> : j \in D}
                   <=> i \in D /\ Place(s, i) = k
        BY <3>1
      <3>3. QED
        BY <1>1, <3>2
    <2>2. Sorted(s) = [k \in DOMAIN s |->
              s[CHOOSE i \in DOMAIN s : <<i, k>> \in {<<j, Place(s, j)>> : j \in DOMAIN s}]]
      BY DEF Sorted
    <2> HIDE DEF at
    <2>3. QED
      BY <1>1, <2>1, <2>2
  <1>12. Sorted(s) \in Seq(Nat) /\ Len(Sorted(s)) = Len(s)
    BY <1>1, <1>9, <1>11
  <1>13. Ascending(Sorted(s))
    <2> SUFFICES ASSUME NEW k \in D, NEW l \in D, k <= l
                 PROVE  s[at[k]] <= s[at[l]]
      BY <1>9, <1>11, <1>12 DEF Ascending
    <2>1. at[k] \in D /\ at[l] \in D /\ Place(s, at[k]) = k /\ Place(s, at[l]) = l
      BY <1>9
    <2>2. s[at[k]] \in Nat /\ s[at[l]] \in Nat /\ k \in Nat /\ l \in Nat
      BY <1>1, <2>1
    <2>3. s[at[l]] < s[at[k]] => l < k
      BY <1>3, <2>1
    <2>4. QED
      BY <2>2, <2>3
  <1>14. QED
    BY <1>10, <1>11, <1>12, <1>13
-----------------------------------------------------------------------------
(* The report of the samples as they were observed. *)

(* Sorting changes no count of samples. *)
LEMMA SortedCounts ==
  ASSUME NEW s \in Seq(Nat), NEW v
  PROVE  /\ Cardinality(AtMost(Sorted(s), v)) <= Cardinality(AtMost(s, v))
         /\ Cardinality(AtLeast(Sorted(s), v)) <= Cardinality(AtLeast(s, v))
         /\ Cardinality(AtMost(s, v)) \in Nat /\ Cardinality(AtLeast(s, v)) \in Nat
  <1>1. PICK at \in Bijection(1 .. Len(s), 1 .. Len(s)) :
           \A k \in 1 .. Len(s) : Sorted(s)[k] = s[at[k]]
    BY SortedPermutes
  <1>2. Len(Sorted(s)) = Len(s) /\ Len(s) \in Nat
    BY SortedPermutes
  <1>3. /\ \A k \in 1 .. Len(s) : at[k] \in 1 .. Len(s)
        /\ \A k, l \in 1 .. Len(s) : at[k] = at[l] => k = l
    BY DEF Bijection, Injection, IsInjective
  <1>4. IsFiniteSet(AtMost(s, v)) /\ IsFiniteSet(AtLeast(s, v))
    <2>1. 1 \in Int /\ Len(s) \in Int
      BY <1>2
    <2>2. IsFiniteSet(1 .. Len(s))
      BY <2>1, FS_Interval
    <2>3. AtMost(s, v) \subseteq 1 .. Len(s) /\ AtLeast(s, v) \subseteq 1 .. Len(s)
      BY DEF AtMost, AtLeast
    <2>4. QED
      BY <2>2, <2>3, FS_Subset
  <1>5. [k \in AtMost(Sorted(s), v) |-> at[k]] \in Injection(AtMost(Sorted(s), v), AtMost(s, v))
    BY <1>1, <1>2, <1>3 DEF AtMost, Injection, IsInjective
  <1>6. [k \in AtLeast(Sorted(s), v) |-> at[k]] \in Injection(AtLeast(Sorted(s), v), AtLeast(s, v))
    BY <1>1, <1>2, <1>3 DEF AtLeast, Injection, IsInjective
  <1>7. QED
    BY <1>4, <1>5, <1>6, FS_Injection, FS_CardinalityType

(* What the summary of any samples reports. *)
THEOREM SummaryHolds ==
  ASSUME NEW s \in Seq(Nat), s # <<>>
  PROVE  /\ \A p \in Quantiles : IsQuantile(s, p, Summary(s).quantile[p])
         /\ Summary(s).quantile[50] <= Summary(s).quantile[95]
         /\ Summary(s).quantile[95] <= Summary(s).quantile[99]
         /\ Summary(s).quantile[99] <= Summary(s).max
         /\ AtMost(s, Summary(s).max) = 1 .. Len(s)
  <1> DEFINE t == Sorted(s)
  <1>1. /\ t \in Seq(Nat) /\ Len(t) = Len(s) /\ Ascending(t) /\ Len(s) \in Nat \ {0}
        /\ t # <<>>
    BY SortedPermutes
  <1>2. PICK at \in Bijection(1 .. Len(s), 1 .. Len(s)) : \A k \in 1 .. Len(s) : t[k] = s[at[k]]
    BY SortedPermutes
  <1>3. /\ \A k \in 1 .. Len(s) : at[k] \in 1 .. Len(s)
        /\ \A i \in 1 .. Len(s) : \E k \in 1 .. Len(s) : at[k] = i
    BY DEF Bijection, Injection, Surjection
  <1>4. /\ \A p \in Quantiles : Summary(s).quantile[p] = Micros(Percentile(t, p))
        /\ Summary(s).max = Micros(t[Len(t)])
    BY DEF Summary
  <1> HIDE DEF t
  <1>5. ASSUME NEW p \in Quantiles
        PROVE  IsQuantile(s, p, Summary(s).quantile[p])
    <2>1. PICK v : v = Summary(s).quantile[p]
      OBVIOUS
    <2>2. IsQuantile(t, p, v)
      BY <1>1, <1>4, <2>1, QuantileOfSorted
    <2>3. \E i \in 1 .. Len(s) : v = Micros(s[i])
      BY <1>1, <1>2, <1>3, <2>2 DEF IsQuantile
    <2>4. /\ Cardinality(AtMost(t, v)) <= Cardinality(AtMost(s, v))
          /\ Cardinality(AtLeast(t, v)) <= Cardinality(AtLeast(s, v))
          /\ Cardinality(AtMost(s, v)) \in Nat /\ Cardinality(AtLeast(s, v)) \in Nat
          /\ Cardinality(AtMost(t, v)) \in Nat /\ Cardinality(AtLeast(t, v)) \in Nat
      BY <1>1, SortedCounts DEF t
    <2>5. 100 * Cardinality(AtMost(t, v)) >= p * Len(s)
          /\ 100 * Cardinality(AtLeast(t, v)) >= (100 - p) * Len(s)
      BY <1>1, <2>2 DEF IsQuantile
    <2>6. p * Len(s) \in Int /\ (100 - p) * Len(s) \in Int
      BY <1>1 DEF Quantiles
    <2>7. QED
      BY <2>1, <2>3, <2>4, <2>5, <2>6 DEF IsQuantile
  <1>6. /\ Summary(s).quantile[50] <= Summary(s).quantile[95]
        /\ Summary(s).quantile[95] <= Summary(s).quantile[99]
        /\ Summary(s).quantile[99] <= Summary(s).max
    BY <1>1, <1>4, QuantilesInOrder DEF Quantiles
  <1>7. ASSUME NEW i \in 1 .. Len(s)
        PROVE  Micros(s[i]) <= Summary(s).max
    <2>1. PICK k \in 1 .. Len(s) : at[k] = i
      BY <1>3
    <2>2. t[k] <= t[Len(t)] /\ t[k] \in Nat /\ t[Len(t)] \in Nat
      BY <1>1 DEF Ascending
    <2>3. QED
      BY <1>2, <1>4, <2>1, <2>2, MicrosMonotone
  <1>8. QED
    BY <1>5, <1>6, <1>7 DEF AtMost

\* Every sample is a latency, of a microsecond at least.
IsLatencies(s) == s \in Seq(Nat) /\ \A i \in 1 .. Len(s) : s[i] >= 1000

\* A row of a command with samples has a p99, and one without has none.
RowOK(row) ==
  /\ row.summary.count \in Nat /\ row.summary.quantile[99] \in Nat
  /\ row.summary.count > 0 <=> row.summary.quantile[99] > 0

\* What makes the properties inductive.
Inv ==
  /\ arrival \in Arrivals
  /\ samples \in [Commands -> Seq(Nat)] /\ \A c \in Commands : IsLatencies(samples[c])
  /\ failures \in [Commands -> Nat] /\ counts \in [Commands -> Nat]
  /\ DOMAIN baseline.rows \subseteq Commands
  /\ DOMAIN baseline.counters \subseteq Commands
  /\ \A c \in DOMAIN baseline.rows : RowOK(baseline.rows[c])

(* What a summary makes of latencies: no p99 is rounded down to none. *)
LEMMA SummaryOfLatencies ==
  ASSUME NEW s, IsLatencies(s)
  PROVE  /\ Summary(s).count = Len(s) /\ Len(s) \in Nat
         /\ Summary(s).quantile[99] \in Nat
         /\ s # <<>> <=> Summary(s).quantile[99] > 0
         /\ s # <<>> <=> Len(s) > 0
  <1>1. s \in Seq(Nat) /\ Summary(s).count = Len(s) /\ Len(s) \in Nat /\ (s # <<>> <=> Len(s) > 0)
    BY DEF Summary, IsLatencies
  <1>2. CASE s # <<>>
    <2>1. IsQuantile(s, 99, Summary(s).quantile[99])
      BY <1>1, <1>2, SummaryHolds DEF Quantiles
    <2>2. PICK i \in 1 .. Len(s) : Summary(s).quantile[99] = Micros(s[i])
      BY <2>1 DEF IsQuantile
    <2>3. s[i] \in Nat /\ s[i] >= 1000
      BY <1>1 DEF IsLatencies
    <2>4. Micros(s[i]) \in Nat /\ Micros(s[i]) > 0
      BY <2>3 DEF Micros
    <2>5. QED
      BY <1>1, <1>2, <2>2, <2>4
  <1>3. CASE s = <<>>
    <2>1. Sorted(s) = <<>>
      <3>1. Len(s) = 0
        BY <1>3
      <3>2. Sorted(s) \in Seq(Nat) /\ Len(Sorted(s)) = 0
        BY <1>1, <3>1, SortedPermutes
      <3>3. QED
        BY <3>2
    <2>2. Summary(s).quantile[99] = 0
      BY <2>1 DEF Summary, Percentile, Quantiles, Micros
    <2>3. QED
      BY <1>1, <1>3, <2>2
  <1>4. QED
    BY <1>2, <1>3

(* The rows and the counters of a report. *)
LEMMA ReportOK ==
  ASSUME Inv
  PROVE  /\ DOMAIN BuildReport.rows = Reported
         /\ \A c \in Reported : /\ BuildReport.rows[c].summary = Summary(samples[c])
                                /\ RowOK(BuildReport.rows[c])
         /\ DOMAIN BuildReport.counters = {c \in Commands : counts[c] > 0}
         /\ \A c \in Commands : counts[c] > 0 => BuildReport.counters[c] = counts[c]
  <1>1. /\ DOMAIN BuildReport.rows = Reported
        /\ \A c \in Reported : BuildReport.rows[c].summary = Summary(samples[c])
        /\ DOMAIN BuildReport.counters = {c \in Commands : counts[c] > 0}
        /\ \A c \in Commands : counts[c] > 0 => BuildReport.counters[c] = counts[c]
    BY DEF BuildReport
  <1>2. \A c \in Reported : RowOK(BuildReport.rows[c])
    BY <1>1, SummaryOfLatencies DEF Inv, RowOK, Reported
  <1>3. QED
    BY <1>1, <1>2

(* The inductive invariant of Metrics. *)
THEOREM Invariant == Spec => []Inv
  <1>1. Init => Inv
    <2> SUFFICES ASSUME Init PROVE Inv
      OBVIOUS
    <2>1. DOMAIN baseline.rows = {} /\ DOMAIN baseline.counters = {}
      BY DEF Init, NoReport
    <2>2. QED
      BY <2>1 DEF Init, Inv, Empty, None, IsLatencies
  <1>2. Inv /\ [Next]_vars => Inv'
    <2> SUFFICES ASSUME Inv, [Next]_vars PROVE Inv'
      OBVIOUS
    <2>1. CASE Save
      <3>1. /\ DOMAIN baseline'.rows \subseteq Commands
            /\ DOMAIN baseline'.counters \subseteq Commands
            /\ \A c \in DOMAIN baseline'.rows : RowOK(baseline'.rows[c])
        BY <2>1, ReportOK DEF Save, Reported
      <3>2. QED
        BY <2>1, <3>1 DEF Save, Inv, Empty, None, IsLatencies
    <2>2. ASSUME NEW c \in Commands, Observe(c)
          PROVE  Inv'
      <3>1. Len(samples[c]) + 1 \in 1 .. Len(arrival) /\ arrival \in Seq(Nat)
            /\ \A i \in 1 .. Len(arrival) : arrival[i] >= 1000
        <4>1. PICK bound \in {MaxSamples, MaxCompared} : Len(samples[c]) < bound[c]
          BY <2>2 DEF Observe
        <4>2. /\ arrival \in Seq(Nat) /\ Len(arrival) >= bound[c] /\ bound[c] \in Nat
              /\ \A i \in 1 .. Len(arrival) : arrival[i] >= 1000
          BY <4>1, MetricsAssumption DEF Inv
        <4>3. Len(samples[c]) \in Nat /\ Len(arrival) \in Nat
          BY <4>2 DEF Inv
        <4>4. QED
          BY <4>1, <4>2, <4>3
      <3>2. PICK d \in Nat : d >= 1000 /\ d = arrival[Len(samples[c]) + 1]
        BY <3>1
      <3>3. samples' = [samples EXCEPT ![c] = Append(samples[c], d)]
        BY <2>2, <3>2 DEF Observe, Inv
      <3>4. IsLatencies(Append(samples[c], d))
        BY <3>2 DEF Inv, IsLatencies
      <3>5. \A e \in Commands : IsLatencies(samples'[e])
        BY <3>3, <3>4 DEF Inv
      <3>6. samples' \in [Commands -> Seq(Nat)]
        BY <3>3, <3>4 DEF Inv, IsLatencies
      <3>7. QED
        BY <2>2, <3>5, <3>6 DEF Observe, Inv
    <2>3. ASSUME NEW c \in Commands, Failed(c)
          PROVE  Inv'
      BY <2>3 DEF Failed, Inv
    <2>4. CASE UNCHANGED vars
      BY <2>4 DEF vars, Inv
    <2>5. QED
      BY <2>1, <2>2, <2>3, <2>4 DEF Next
  <1>3. QED
    BY <1>1, <1>2, PTL DEF Spec

(* The reported quantiles are quantiles of what was observed, for any number
   of samples in any order. *)
THEOREM QuantilesAreReported == Spec => []QuantilesHold
  <1>1. Inv => QuantilesHold
    <2> SUFFICES ASSUME Inv, NEW c \in Commands, samples[c] # <<>>
                 PROVE  LET s == samples[c]
                            row == BuildReport.rows[c].summary
                        IN /\ \A p \in Quantiles : IsQuantile(s, p, row.quantile[p])
                           /\ row.quantile[50] <= row.quantile[95]
                           /\ row.quantile[95] <= row.quantile[99]
                           /\ row.quantile[99] <= row.max
                           /\ AtMost(s, row.max) = 1 .. Len(s)
      BY DEF QuantilesHold
    <2>1. c \in Reported /\ samples[c] \in Seq(Nat)
      BY DEF Reported, Inv
    <2>2. BuildReport.rows[c].summary = Summary(samples[c])
      BY <2>1, ReportOK
    <2>3. QED
      BY <2>1, <2>2, SummaryHolds
  <1>2. QED
    BY <1>1, Invariant, PTL

(* What a comparison is made of. *)
LEMMA DiffOf ==
  ASSUME Inv, NEW diff, diff = DiffReports(baseline, BuildReport)
  PROVE  /\ DOMAIN diff.rows = DOMAIN baseline.rows \cup Reported
         /\ DOMAIN diff.counters = DOMAIN baseline.counters \cup {c \in Commands : counts[c] > 0}
         /\ \A c \in DOMAIN diff.rows :
              /\ c \in Commands
              /\ diff.rows[c].old = P99(baseline, c) /\ diff.rows[c].new = P99(BuildReport, c)
              /\ diff.rows[c].change = Pct(diff.rows[c].old, diff.rows[c].new)
         /\ \A c \in DOMAIN diff.counters :
              /\ diff.counters[c].old = Counter(baseline, c)
              /\ diff.counters[c].new = IF counts[c] > 0 THEN counts[c] ELSE 0
  <1>1. /\ DOMAIN BuildReport.rows = Reported /\ Reported \subseteq Commands
        /\ DOMAIN BuildReport.counters = {c \in Commands : counts[c] > 0}
        /\ \A c \in Commands : counts[c] > 0 => BuildReport.counters[c] = counts[c]
    BY ReportOK DEF Reported
  <1>2. DOMAIN baseline.rows \subseteq Commands /\ DOMAIN baseline.counters \subseteq Commands
    BY DEF Inv
  <1>3. \A c \in Commands : Counter(BuildReport, c) = IF counts[c] > 0 THEN counts[c] ELSE 0
    BY <1>1 DEF Counter
  <1>4. QED
    BY <1>1, <1>2, <1>3 DEF DiffReports, Union

(* Which of the two runs had a success of a command can be read off its p99. *)
LEMMA SuccessShows ==
  ASSUME Inv, NEW c \in Commands
  PROVE  /\ P99(BuildReport, c) \in Nat /\ (P99(BuildReport, c) > 0 <=> Now(c))
         /\ P99(baseline, c) \in Nat /\ (P99(baseline, c) > 0 <=> Before(c))
  <1>1. P99(BuildReport, c) \in Nat /\ (P99(BuildReport, c) > 0 <=> Now(c))
    BY ReportOK, SummaryOfLatencies DEF Inv, P99, Reported, Now
  <1>2. P99(baseline, c) \in Nat /\ (P99(baseline, c) > 0 <=> Before(c))
    BY DEF Inv, P99, RowOK, Before
  <1>3. QED
    BY <1>1, <1>2

(* A comparison hides no command and no failure of either run. *)
THEOREM ComparisonIsComplete == Spec => []ComparisonTellsAll
  <1>1. Inv => ComparisonTellsAll
    <2> SUFFICES ASSUME Inv PROVE ComparisonTellsAll
      OBVIOUS
    <2>1. PICK diff : diff = DiffReports(baseline, BuildReport)
      OBVIOUS
    <2>2. SUFFICES ASSUME NEW c \in Commands
                   PROVE  /\ Now(c) \/ Before(c) \/ failures[c] > 0 => c \in DOMAIN diff.rows
                          /\ c \in DOMAIN baseline.rows => c \in DOMAIN diff.rows
                          /\ counts[c] > 0 => /\ c \in DOMAIN diff.counters
                                              /\ diff.counters[c].new = counts[c]
                          /\ c \in DOMAIN baseline.counters =>
                               /\ c \in DOMAIN diff.counters
                               /\ diff.counters[c].old = baseline.counters[c]
                          /\ c \in DOMAIN diff.counters /\ counts[c] = 0 =>
                               diff.counters[c].new = 0
      BY <2>1 DEF ComparisonTellsAll
    <2>3. QED
      BY <2>1, DiffOf DEF Now, Before, Reported, Counter
  <1>2. QED
    BY <1>1, Invariant, PTL

(* The quotient rounded has the sign of what was divided. *)
LEMMA RoundedSign ==
  ASSUME NEW a \in Int, NEW b \in Int, b > 0
  PROVE  /\ Rounded(a, b) \in Int
         /\ Rounded(a, b) > 0 => a > 0
         /\ Rounded(a, b) < 0 => a < 0
  <1>1. PICK q : q = a \div b
    OBVIOUS
  <1>2. q \in Int /\ b * q <= a /\ a < b * q + b
    BY <1>1
  <1>3. PICK m : m = b * q
    OBVIOUS
  <1>4. m \in Int /\ m <= a /\ a < m + b
    BY <1>2, <1>3
  <1>5. /\ q = 0 => m = 0
        /\ q = -1 => m = -b
        /\ q >= 1 => m >= b
        /\ q <= -1 => m <= -b
    BY <1>2, <1>3
  <1>6. Rounded(a, b) = IF 2 * (a - m) > b \/ (2 * (a - m) = b /\ q % 2 = 1) THEN q + 1 ELSE q
    BY <1>1, <1>3 DEF Rounded
  <1>7. QED
    BY <1>2, <1>4, <1>5, <1>6

(* What is gone is 100 percent less. *)
LEMMA RoundedWhole ==
  ASSUME NEW b \in Int, b > 0
  PROVE  Rounded(100 * (0 - b), b) = -100
  <1>1. (100 * (0 - b)) \div b = -100
    <2>1. PICK a, q : a = 100 * (0 - b) /\ q = a \div b
      OBVIOUS
    <2>2. a \in Int /\ q \in Int /\ b * q <= a /\ a < b * q + b
      BY <2>1
    <2>3. b * (q + 100) <= 0 /\ 0 < b * (q + 101)
      BY <2>1, <2>2
    <2>4. q + 100 <= 0 /\ q + 101 > 0
      BY <2>2, <2>3
    <2>5. QED
      BY <2>1, <2>2, <2>4
  <1>2. b * (-100) = 100 * (0 - b)
    OBVIOUS
  <1>3. QED
    BY <1>1, <1>2 DEF Rounded

(* The change column never takes a slower p99 for a faster one or the reverse,
   and what it prints for a command without a success is told from a speed-up
   by the counters, if there was an attempt. *)
THEOREM DirectionsAreTrue == Spec => []ChangesAreReal
  <1>1. Inv => ChangesAreReal
    <2> SUFFICES ASSUME Inv PROVE ChangesAreReal
      OBVIOUS
    <2>1. PICK diff : diff = DiffReports(baseline, BuildReport)
      OBVIOUS
    <2>2. SUFFICES ASSUME NEW c \in DOMAIN diff.rows, NEW row, row = diff.rows[c]
                   PROVE  /\ row.change.kind = "none" <=> ~Before(c) /\ ~Now(c)
                          /\ row.change.kind = "new" <=> ~Before(c) /\ Now(c)
                          /\ row.change.kind = "percent" =>
                               /\ row.change.value > 0 => Now(c) /\ row.new > row.old
                               /\ row.change.value < 0 => row.new < row.old
                               /\ ~Now(c) => row.change.value = -100
                               /\ ~Now(c) /\ counts[c] > 0 =>
                                    c \in DOMAIN diff.counters /\ diff.counters[c].new > 0
      BY <2>1 DEF ChangesAreReal
    <2>3. PICK old, new : old = row.old /\ new = row.new
      OBVIOUS
    <2>4. c \in Commands /\ row.change = Pct(old, new)
          /\ old = P99(baseline, c) /\ new = P99(BuildReport, c)
      BY <2>1, <2>2, <2>3, DiffOf
    <2>5. /\ old \in Nat /\ (old > 0 <=> Before(c))
          /\ new \in Nat /\ (new > 0 <=> Now(c))
      BY <2>4, SuccessShows
    <2>6. counts[c] > 0 => c \in DOMAIN diff.counters /\ diff.counters[c].new > 0
      BY <2>1, <2>4, DiffOf
    <2>7. CASE old = 0
      BY <2>4, <2>5, <2>7 DEF Pct
    <2>8. CASE old > 0
      <3>1. PICK k : k = Rounded(100 * (new - old), old)
        OBVIOUS
      <3>2. row.change.kind = "percent" /\ row.change.value = k
        BY <2>4, <2>8, <3>1 DEF Pct, Percent
      <3>3. k \in Int /\ (k > 0 => new > old) /\ (k < 0 => new < old)
        BY <2>5, <2>8, <3>1, RoundedSign
      <3>4. new = 0 => k = -100
        BY <2>5, <2>8, <3>1, RoundedWhole
      <3>5. QED
        BY <2>3, <2>5, <2>6, <2>8, <3>2, <3>3, <3>4
    <2>9. QED
      BY <2>5, <2>7, <2>8
  <1>2. QED
    BY <1>1, Invariant, PTL
=============================================================================
