-------------------------------- MODULE Charts ---------------------------------
(***************************************************************************)
(* From rows to bars: the statements of LogsAggregateService over the rows *)
(* a filter has selected, and what the panels of the console make of them. *)
(* Only bars with a line are kept; a bar of height zero says nothing here. *)
(* Operators whose names begin with Bad are seeded faults.                 *)
(***************************************************************************)
EXTENDS Integers, FiniteSets, FiniteSetsExt

CONSTANT MINUTE    \* in ticks of the model's clock
HOUR == 60 * MINUTE

\* resolveBucket(): date_trunc() has no five minutes, so the unit stays a minute.
resolveBucket(from, to) ==
  LET hours(n) == to - from <= n * HOUR
  IN  IF hours(6) THEN [unit |-> MINUTE, interval |-> MINUTE]
      ELSE IF hours(24) THEN [unit |-> MINUTE, interval |-> 5 * MINUTE]
      ELSE [unit |-> HOUR, interval |-> HOUR]

date_trunc(unit, time) == time - (time % unit)

\* generate_series(from, to, interval) starts at `from`, wherever that is.
generate_series(window, interval) ==
  {b \in window.from .. window.to : (b - window.from) % interval = 0}
InSeries(b, window, interval) ==
  b \in window.from .. window.to /\ (b - window.from) % interval = 0

\* A seeded fault: an inner condition loses the lines at the window's end.
BadVolume(rows, window, bucket) ==
  {[bucket |-> b, level |-> row.level,
    n |-> Cardinality({r \in rows : /\ date_trunc(bucket.unit, r.time) = b
                                    /\ r.level = row.level /\ r.time < window.to})] :
     b \in {c \in {date_trunc(bucket.unit, r.time) : r \in rows} :
              InSeries(c, window, bucket.interval)},
     row \in rows}

\* The LEFT JOIN of the series with the counts: they must name the same instant.
volume(rows, window, bucket) ==
  {[bucket |-> b, level |-> row.level,
    n |-> Cardinality({r \in rows : /\ date_trunc(bucket.unit, r.time) = b
                                    /\ r.level = row.level})] :
     b \in {c \in {date_trunc(bucket.unit, r.time) : r \in rows} :
              InSeries(c, window, bucket.interval)},
     row \in rows}

Minutes(rows, unit) == {date_trunc(unit, row.time) : row \in rows}
InBucket(rows, unit, b) == {row \in rows : date_trunc(unit, row.time) = b}

\* The classes of a bucket's statuses; a row without a status (0) is in none.
statusMix(rows, unit) ==
  {LET Class(low, high) == Cardinality({row \in InBucket(rows, unit, b) :
                                          row.status \in low .. high})
   IN  [bucket |-> b, s2xx |-> Class(200, 299), s3xx |-> Class(300, 399),
        s4xx |-> Class(400, 499),
        s5xx |-> Cardinality({row \in InBucket(rows, unit, b) : row.status >= 500})] :
     b \in Minutes(rows, unit)}

\* The share of failures, as a fraction, among the rows that an interceptor wrote.
errorRate(rows, unit) ==
  LET requests == {row \in rows : row.logKey \in {"HTTP_REQUEST_CLIENT_ERROR",
                                                  "HTTP_REQUEST_SERVER_ERROR"}}
  IN  {[bucket |-> b,
        errors |-> Cardinality({row \in InBucket(requests, unit, b) : row.status >= 400}),
        total  |-> Cardinality(InBucket(requests, unit, b))] : b \in Minutes(requests, unit)}

\* The k-th smallest duration: fewer than k rows are faster, and k are not slower.
Nth(rows, k) ==
  CHOOSE ms \in {row.durationMs : row \in rows} :
    /\ Cardinality({row \in rows : row.durationMs < ms}) < k
    /\ Cardinality({row \in rows : row.durationMs <= ms}) >= k

\* percentile_cont(), in hundredths of a millisecond: the position of the fraction
\* among the sorted values, between two of them.
percentile_cont(hundredths, rows) ==
  LET position == (Cardinality(rows) - 1) * hundredths
      low  == Nth(rows, position \div 100 + 1)
      high == Nth(rows, Min({position \div 100 + 2, Cardinality(rows)}))
  IN  100 * low + (high - low) * (position % 100)

latency(rows, unit) ==
  LET timed == {row \in rows : row.durationMs # 0}
      Percentile(b, hundredths) == percentile_cont(hundredths, InBucket(timed, unit, b))
  IN  {[bucket |-> b, p50 |-> Percentile(b, 50), p95 |-> Percentile(b, 95),
        p99 |-> Percentile(b, 99)] : b \in Minutes(timed, unit)}

-----------------------------------------------------------------------------
(* lib/metrics.ts and the panels. *)

\* A share n / of, without the division: of nothing it is zero.
Share(n, of) == [n |-> n, of |-> IF of = 0 THEN 1 ELSE of]

\* The FATAL+ERROR tile, and with all levels the total of the strip.
sumLevels(bars, levels) ==
  MapThenSumSet(LAMBDA bar : bar.n, {bar \in bars : bar.level \in levels})

\* The stacks of the volume panel: what a bucket holds of each level.
pivotVolume(bars) ==
  {[bucket |-> b, height |-> sumLevels({bar \in bars : bar.bucket = b},
                                       {bar.level : bar \in bars})] :
     b \in {bar.bucket : bar \in bars}}
sumHeights(stacks) == MapThenSumSet(LAMBDA p : p.height, stacks)

\* The slices of the donut.
slices(bars) ==
  {[level |-> l, n |-> sumLevels(bars, {l})] : l \in {bar.level : bar \in bars}}

InClasses(m) == m.s2xx + m.s3xx + m.s4xx + m.s5xx
statusTotals(mix) == {[bucket |-> m.bucket, total |-> InClasses(m)] : m \in mix}

sumStatusErrors(mix) == MapThenSumSet(LAMBDA m : m.s4xx + m.s5xx, mix)

\* The sparkline of the Errors tile.
statusErrorRatePctSeries(mix) ==
  {[bucket |-> m.bucket, rate |-> Share(m.s4xx + m.s5xx, InClasses(m))] : m \in mix}

\* The mean of the buckets' p95.
meanOf(buckets) ==
  Share(MapThenSumSet(LAMBDA b : b.p95, buckets), Cardinality(buckets))
==============================================================================
