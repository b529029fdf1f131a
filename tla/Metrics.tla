------------------------------ MODULE Metrics ------------------------------
(***************************************************************************)
(* PrivacyShieldMetrics: labelled counters and latency histograms that     *)
(* keep the last MaxSamples observations in a ring, overall and for each   *)
(* label.  All methods are synchronous and run in one event loop, so each  *)
(* is one step of its caller and the locks are left out.                   *)
(***************************************************************************)
EXTENDS Integers, FiniteSetsExt, SequencesExt, Counting

CONSTANTS
  MaxSamples,   \* _HISTOGRAM_MAX_SAMPLES, 10 000
  PromBuckets   \* _PROM_BUCKETS, ascending

ASSUME MetricsAssumption ==
  /\ MaxSamples \in Nat \ {0}
  /\ PromBuckets \in Seq(Nat)
  /\ \A i \in 1..Len(PromBuckets) - 1 : PromBuckets[i] <= PromBuckets[i + 1]

\* The names of the counters; the histogram is ps_latency_ms.
CounterNames ==
  {"tokenizations", "tokens_created", "failures", "flush", "dek_rotations", "health_checks",
   "monthly_quota_exceeded"}

All == "all"   \* the key of an observation without labels

-----------------------------------------------------------------------------
NewCounter == [total |-> 0, byLabel |-> <<>>]

\* _Counter.increment, n times, n > 0.
Incremented(c, key, n) ==
  [total |-> c.total + n,
   byLabel |-> [k \in DOMAIN c.byLabel \cup {key} |->
                  (IF k \in DOMAIN c.byLabel THEN c.byLabel[k] ELSE 0) + (IF k = key THEN n ELSE 0)]]

NewRing == [samples |-> <<>>, cursor |-> 0, full |-> FALSE]

\* Mutant: the cursor points at the newest sample.
RingAppendNewest(ring, value) ==
  IF Len(ring.samples) < MaxSamples
    THEN [ring EXCEPT !.samples = Append(@, value), !.cursor = Len(ring.samples)]
    ELSE [ring EXCEPT !.samples[ring.cursor + 1] = value, !.full = TRUE]

\* _ring_append: when the ring is full, the oldest sample is overwritten.
RingAppend(ring, value) ==
  IF ~ ring.full /\ Len(ring.samples) < MaxSamples
    THEN LET n == Len(ring.samples) + 1
         IN [samples |-> Append(ring.samples, value), cursor |-> n % MaxSamples,
             full |-> ring.full \/ n = MaxSamples]
    ELSE [samples |-> [ring.samples EXCEPT ![(ring.cursor % MaxSamples) + 1] = value],
          cursor |-> (ring.cursor + 1) % MaxSamples, full |-> TRUE]

NewHistogram == [overall |-> NewRing, byLabel |-> <<>>]

\* _Histogram.observe.
Observed(h, value, key) ==
  [overall |-> RingAppend(h.overall, value),
   byLabel |-> [k \in DOMAIN h.byLabel \cup {key} |->
                  LET ring == IF k \in DOMAIN h.byLabel THEN h.byLabel[k] ELSE NewRing
                  IN IF k = key THEN RingAppend(ring, value) ELSE ring]]

\* Mutant: the rank is not rounded up.
PercentileFloor(sorted, p) == sorted[Max({1, Min({(p * Len(sorted)) \div 100, Len(sorted)})})]

\* _percentile: the nearest rank, of a sequence that is not empty.
Percentile(sorted, p) ==
  LET rank == (p * Len(sorted) + 99) \div 100
  IN sorted[Max({0, Min({rank - 1, Len(sorted) - 1})}) + 1]

\* sorted(): a stable sort.
Sorted(samples) ==
  LET upTo == {x \in (DOMAIN samples) \X (DOMAIN samples) :
                 \/ samples[x[1]] < samples[x[2]]
                 \/ samples[x[1]] = samples[x[2]] /\ x[1] <= x[2]}
      nth == InOrder(DOMAIN samples, upTo)
  IN [k \in DOMAIN nth |-> samples[nth[k]]]

Sum(samples) == FoldLeft(LAMBDA a, b : a + b, 0, samples)

\* _summarise.
Summarise(samples) ==
  IF samples = <<>> THEN [count |-> 0, sum |-> 0, min |-> 0, max |-> 0, p50 |-> 0, p99 |-> 0]
  ELSE LET s == Sorted(samples)
       IN [count |-> Len(s), sum |-> Sum(s), min |-> s[1], max |-> s[Len(s)],
           p50 |-> Percentile(s, 50), p99 |-> Percentile(s, 99)]

-----------------------------------------------------------------------------
NewMetrics == [counters |-> [n \in CounterNames |-> NewCounter], latency |-> NewHistogram]

IncrementBy(m, name, key, n) == [m EXCEPT !.counters[name] = Incremented(@, key, n)]

Increment(m, name, key) == IncrementBy(m, name, key, 1)

\* The tokens are counted without their types.
RecordTokenization(m, source, tokens) ==
  LET called == Increment(m, "tokenizations", source)
  IN IF tokens = 0 THEN called
     ELSE IncrementBy(called, "tokens_created", All, tokens)

RecordLatency(m, operation, ms) == [m EXCEPT !.latency = Observed(@, ms, operation)]
RecordFailure(m, reason) == Increment(m, "failures", reason)
RecordFlush(m, status) == Increment(m, "flush", status)
RecordDekRotation(m) == Increment(m, "dek_rotations", All)
RecordHealthCheck(m, status) == Increment(m, "health_checks", status)
RecordMonthlyQuotaExceeded(m, plan) == Increment(m, "monthly_quota_exceeded", plan)

\* snapshot: what GET /metrics answers.
Snapshot(m) ==
  [counters |-> m.counters,
   latency |-> [overall |-> Summarise(m.latency.overall.samples),
                byLabel |-> [k \in DOMAIN m.latency.byLabel |->
                               Summarise(m.latency.byLabel[k].samples)]]]

\* The samples from above one bound to another.
Within(samples, above, bound) ==
  Cardinality({j \in DOMAIN samples : above < samples[j] /\ samples[j] <= bound})

\* The samples up to a bound.
UpTo(samples, bound) == Cardinality({j \in DOMAIN samples : samples[j] <= bound})

\* Mutant: each sample is counted in its own bucket only.
BucketsApart(samples) ==
  [i \in DOMAIN PromBuckets |->
     Within(samples, IF i = 1 THEN -1 ELSE PromBuckets[i - 1], PromBuckets[i])]

\* The counts of the buckets of one histogram, the last one being +Inf.
Buckets(samples) ==
  [i \in 1..Len(PromBuckets) + 1 |->
     IF i \in DOMAIN PromBuckets THEN UpTo(samples, PromBuckets[i]) ELSE Len(samples)]

\* The lines of to_prometheus: <<metric, label, value>>.  A counter without
\* labels has one line, also before its first increment.
CounterLines(m) ==
  UNION {LET by == m.counters[n].byLabel
         IN IF DOMAIN by \subseteq {All}
              THEN {<<n, All, IF by = <<>> THEN 0 ELSE by[All]>>}
              ELSE {<<n, k, by[k]>> : k \in DOMAIN by}
         : n \in CounterNames}

HistogramLines(m) ==
  LET h == m.latency
      series == IF h.byLabel = <<>> THEN [k \in {All} |-> h.overall] ELSE h.byLabel
  IN {[label |-> k, buckets |-> Buckets(series[k].samples),
       count |-> Len(series[k].samples), sum |-> Sum(series[k].samples)] : k \in DOMAIN series}
-----------------------------------------------------------------------------
\* What a counter has counted under a label.
CountOf(m, name, key) ==
  LET by == m.counters[name].byLabel IN IF key \in DOMAIN by THEN by[key] ELSE 0

\* The last n elements of a sequence, all of them if it has fewer.
Tail_(s, n) == SubSeq(s, Max({1, Len(s) - n + 1}), Len(s))

Occurrences(s) == [x \in ToSet(s) |-> Cardinality({i \in DOMAIN s : s[i] = x})]

\* The ring holds the last observations of the log, in any order.
HoldsLast(ring, log) == Occurrences(ring.samples) = Occurrences(Tail_(log, MaxSamples))

\* What makes it so: the newest sample is before the cursor, the oldest at it.
Follows(ring, log) ==
  IF Len(log) < MaxSamples
    THEN ring = [samples |-> log, cursor |-> Len(log), full |-> FALSE]
    ELSE /\ ring = [samples |-> ring.samples, cursor |-> ring.cursor, full |-> TRUE]
         /\ ring.cursor \in 0..MaxSamples - 1
         /\ ring.samples = [i \in 1..MaxSamples |->
              log[Len(log) - ring.cursor + i - (IF i > ring.cursor THEN MaxSamples ELSE 0)]]
=============================================================================
