------------------------------- MODULE Metrics ------------------------------
(***************************************************************************)
(* internal/metrics, the numbers: the samples of a hist and their summary  *)
(* (recorder.go), the rows of a report (report.go) and the comparison of   *)
(* two reports (diff.go).  A first run's report is kept as the baseline of *)
(* a second one's, as `bench --compare-to` and `compare` do.               *)
(*                                                                         *)
(* A latency is a number of nanoseconds, a quantile a percentage.          *)
(* int(p*float64(n)) is exact for the three the code asks for: it is the   *)
(* integer division below for every n the tool can reach.                  *)
(***************************************************************************)
EXTENDS Integers, Sequences, FiniteSets

CONSTANTS
  Commands,    \* what a scenario asks of the server
  Attributed,  \* those whose failures go to cmdErrors too: all but chat's JOIN
  Arrivals,    \* the orders in which latencies may arrive, each a sequence
  MaxSamples,  \* bound: command -> samples in a run that is not compared
  MaxCompared, \* bound: command -> samples in each of two runs that are
  MaxFailures  \* bound: failures of a command in a run

\* No round trip over a network takes less than a microsecond.
ASSUME MetricsAssumption ==
  /\ MaxSamples \in [Commands -> Nat] /\ MaxCompared \in [Commands -> Nat]
  /\ MaxFailures \in Nat /\ Attributed \subseteq Commands
  /\ \A a \in Arrivals, c \in Commands :
       a \in Seq(Nat) /\ Len(a) >= MaxSamples[c] /\ Len(a) >= MaxCompared[c]
       /\ \A i \in 1 .. Len(a) : a[i] >= 1000

VARIABLES
  arrival,    \* the order of this behavior
  samples,    \* command -> samples of the run, as they were observed
  failures,   \* command -> its failures in cmdErrors
  counts,     \* command -> the error counter that goes with it
  baseline    \* the report of the first run, or NoReport

vars == <<arrival, samples, failures, counts, baseline>>

Quantiles == {50, 95, 99}
-----------------------------------------------------------------------------
(* hist.summary and percentile *)

\* The index, from 0, of a quantile among n sorted samples.
Rank(p, n) ==
  LET rank == (p * n) \div 100 IN IF rank >= n THEN n - 1 ELSE rank

Percentile(sorted, p) ==
  IF sorted = <<>> THEN 0 ELSE sorted[Rank(p, Len(sorted)) + 1]

\* Mutant: the samples are summed up in the order of their arrival.
Sorted_NotSorted(s) == s

\* The place of the i-th sample in ascending order. Equal samples are not told
\* apart by their order, here that of their arrival.
Place(s, i) ==
  Cardinality({j \in DOMAIN s : s[j] < s[i] \/ (s[j] = s[i] /\ j <= i)})

Sorted(s) ==
  LET place == {<<i, Place(s, i)>> : i \in DOMAIN s} IN
  [k \in DOMAIN s |-> s[CHOOSE i \in DOMAIN s : <<i, k>> \in place]]

\* ms: Microseconds drops what is below one.
Micros(d) == d \div 1000

Summary(s) ==
  LET sorted == Sorted(s) IN
  [count |-> Len(s),
   quantile |-> [p \in Quantiles |-> Micros(Percentile(sorted, p))],
   max |-> IF s = <<>> THEN 0 ELSE Micros(sorted[Len(sorted)])]
-----------------------------------------------------------------------------
(* BuildReport *)

\* The union of the keys of hists and of cmdErrors.
Reported == {c \in Commands : samples[c] # <<>> \/ failures[c] > 0}

\* The error counter of c is a key once it has been incremented.
BuildReport ==
  [rows     |-> [c \in Reported |-> [summary |-> Summary(samples[c]),
                                     errors  |-> failures[c]]],
   counters |-> [c \in {c \in Commands : counts[c] > 0} |-> counts[c]]]

NoReport == [rows |-> <<>>, counters |-> <<>>]
-----------------------------------------------------------------------------
(* DiffReports *)

P99(report, c) ==
  IF c \in DOMAIN report.rows THEN report.rows[c].summary.quantile[99] ELSE 0

Counter(report, c) ==
  IF c \in DOMAIN report.counters THEN report.counters[c] ELSE 0

\* The integer next to a/b, and the even one of two: what %.0f prints, but for
\* the error of the float64 before it.
Rounded(a, b) ==
  LET q == a \div b
      rest == 2 * (a - b * q)
  IN IF rest > b \/ (rest = b /\ q % 2 = 1) THEN q + 1 ELSE q

Percent(k) == [kind |-> "percent", value |-> k]

\* Mutant: the two runs are taken for each other.
Pct_Swapped(old, new) ==
  IF new = 0 THEN [kind |-> IF old = 0 THEN "none" ELSE "new"]
  ELSE Percent(Rounded(100 * (old - new), new))

\* pct: a percentage, unless there is nothing to relate the new value to. A
\* value that is gone is 100 percent less.
Pct(old, new) ==
  IF old = 0 THEN [kind |-> IF new = 0 THEN "none" ELSE "new"]
  ELSE Percent(Rounded(100 * (new - old), old))

\* Mutant: the commands of the old report only.
Union_Old(old, new) == DOMAIN old

Union(old, new) == DOMAIN old \cup DOMAIN new

DiffReports(old, new) ==
  [rows |-> [c \in Union(old.rows, new.rows) |->
               [old |-> P99(old, c), new |-> P99(new, c),
                change |-> Pct(P99(old, c), P99(new, c))]],
   counters |-> [c \in Union(old.counters, new.counters) |->
                   [old |-> Counter(old, c), new |-> Counter(new, c)]]]
-----------------------------------------------------------------------------
Empty == [c \in Commands |-> <<>>]
None == [c \in Commands |-> 0]

Init ==
  /\ arrival \in Arrivals
  /\ samples = Empty /\ failures = None /\ counts = None
  /\ baseline = NoReport

\* The next latency of the order is observed.
Observe(c) ==
  /\ Len(samples[c]) < (IF baseline = NoReport THEN MaxSamples ELSE MaxCompared)[c]
  /\ samples' = [samples EXCEPT ![c] = Append(@, arrival[Len(@) + 1])]
  /\ UNCHANGED <<arrival, failures, counts, baseline>>

\* ObserveError, where the scenario calls it, and the Inc that always follows.
Failed(c) ==
  /\ counts[c] < MaxFailures
  /\ counts' = [counts EXCEPT ![c] = @ + 1]
  /\ failures' = IF c \in Attributed THEN [failures EXCEPT ![c] = @ + 1] ELSE failures
  /\ UNCHANGED <<arrival, samples, baseline>>

\* The first run ends: its report is saved, and a new recorder is made.
Save ==
  /\ baseline = NoReport
  /\ \A c \in Commands : Len(samples[c]) <= MaxCompared[c]
  /\ baseline' = BuildReport
  /\ samples' = Empty /\ failures' = None /\ counts' = None
  /\ UNCHANGED arrival

Next == Save \/ \E c \in Commands : Observe(c) \/ Failed(c)

Spec == Init /\ [][Next]_vars
-----------------------------------------------------------------------------
(* Properties *)

\* The samples that satisfy a relation to a reported value.
AtMost(s, v) == {i \in 1 .. Len(s) : Micros(s[i]) <= v}
AtLeast(s, v) == {i \in 1 .. Len(s) : Micros(s[i]) >= v}

\* v is a quantile of s: a value that occurs, with at least p percent of the
\* samples at or below and at least 100 - p percent at or above it.
IsQuantile(s, p, v) ==
  /\ \E i \in 1 .. Len(s) : v = Micros(s[i])
  /\ 100 * Cardinality(AtMost(s, v)) >= p * Len(s)
  /\ 100 * Cardinality(AtLeast(s, v)) >= (100 - p) * Len(s)

\* The reported quantiles are quantiles of what was observed, in whatever order.
\* They are in order, and the greatest sample is the maximum.
QuantilesHold ==
  \A c \in Commands : samples[c] # <<>> =>
    LET s == samples[c]
        row == BuildReport.rows[c].summary
    IN /\ \A p \in Quantiles : IsQuantile(s, p, row.quantile[p])
       /\ row.quantile[50] <= row.quantile[95]
       /\ row.quantile[95] <= row.quantile[99]
       /\ row.quantile[99] <= row.max
       /\ AtMost(s, row.max) = 1 .. Len(s)

\* Whether a command had a success in the second run, or in the first one.
Now(c) == samples[c] # <<>>
Before(c) == c \in DOMAIN baseline.rows /\ baseline.rows[c].summary.count > 0

\* A comparison hides nothing: a command has a row if it has had a success or an
\* attributed failure in either run, and its failures, attributed or not, are
\* told for both runs, so that a run that failed more does not pass for a win.
ComparisonTellsAll ==
  LET diff == DiffReports(baseline, BuildReport)
      told == DOMAIN diff.counters
  IN \A c \in Commands :
       /\ Now(c) \/ Before(c) \/ failures[c] > 0 => c \in DOMAIN diff.rows
       /\ c \in DOMAIN baseline.rows => c \in DOMAIN diff.rows
       /\ counts[c] > 0 => c \in told /\ diff.counters[c].new = counts[c]
       /\ c \in DOMAIN baseline.counters =>
            c \in told /\ diff.counters[c].old = baseline.counters[c]
       /\ c \in told /\ counts[c] = 0 => diff.counters[c].new = 0

\* The change column tells the direction truly. "new" and "0%" are about
\* commands without a success before; a percentage above zero is a slower p99 of
\* two runs with successes; one below zero is a faster p99, or, as -100%, a command
\* without a success now: then its failures stand among the counters, unless
\* it was not attempted at all.
ChangesAreReal ==
  LET diff == DiffReports(baseline, BuildReport) IN
  \A c \in DOMAIN diff.rows :
    LET row == diff.rows[c] IN
    /\ row.change.kind = "none" <=> ~Before(c) /\ ~Now(c)
    /\ row.change.kind = "new" <=> ~Before(c) /\ Now(c)
    /\ row.change.kind = "percent" =>
         /\ row.change.value > 0 => Now(c) /\ row.new > row.old
         /\ row.change.value < 0 => row.new < row.old
         /\ ~Now(c) => row.change.value = -100
         /\ ~Now(c) /\ counts[c] > 0 => c \in DOMAIN diff.counters
                                       /\ diff.counters[c].new > 0
-----------------------------------------------------------------------------
(* A claim of the repository's comments that the code does not keep. *)

\* recorder.go:105 "percentile returns the p-quantile (0..1) of a sorted slice
\* using nearest-rank": the smallest sample with at least p percent of the
\* samples at or below it.
NearestRank ==
  \A c \in Commands, p \in Quantiles : samples[c] # <<>> =>
    LET s == samples[c]
        enough == {i \in 1 .. Len(s) :
                     100 * Cardinality(AtMost(s, Micros(s[i]))) >= p * Len(s)}
    IN \A i \in enough : BuildReport.rows[c].summary.quantile[p] <= Micros(s[i])
=============================================================================
