------------------------- MODULE PromHistogramBuckets -------------------------
(***************************************************************************)
(* The bucket constructors of src/src/monitor/impl/prom_histogram_buckets.c *)
(* and the bucket check of prom_histogram_new (prom_histogram.c), as       *)
(* operators.  A buckets pointer is a record: `null` for NULL, otherwise   *)
(* its `count` and its `upper_bounds`, a sequence of bounds in the units   *)
(* PromHistogram uses (10^-7).  The constructors' malloc failures return   *)
(* NULL, as their count checks do; the model takes that path through the  *)
(* count checks.                                                           *)
(***************************************************************************)
EXTENDS Integers, Sequences

Buckets(c, ub) == [null |-> FALSE, count |-> c, upper_bounds |-> ub]

NoBuckets == [null |-> TRUE, count |-> 0, upper_bounds |-> <<>>]

\* prom_histogram_default_buckets: a global that nothing under src/ assigns,
\* so it keeps its static initial value, NULL.
DefaultBuckets == NoBuckets

\* prom_histogram_buckets_new(count, bucket, ...): the first bound and the
\* count - 1 variadic ones, copied as given, with no check of their order.
BucketsNew(count, bs) == Buckets(count, [i \in 1 .. count |-> bs[i]])

\* prom_histogram_buckets_linear: NULL unless count > 1; then each bound is
\* the previous one plus width, whatever the sign of width.
BucketsLinear(start, width, count) ==
  IF count <= 1 THEN NoBuckets
  ELSE Buckets(count, [i \in 1 .. count |-> start + (i - 1) * width])

\* prom_histogram_buckets_exponential: NULL when count < 1, start <= 0 or
\* factor <= 1; then each bound is the previous one times factor.
BucketsExponential(start, factor, count) ==
  IF count < 1 \/ start <= 0 \/ factor <= 1 THEN NoBuckets
  ELSE Buckets(count, [i \in 1 .. count |-> start * factor ^ (i - 1)])

\* prom_histogram_buckets_count.
BucketsCount(bk) == bk.count

\* prom_histogram_new: the check that no bound exceeds the next one.
BoundsAccepted(bs) == \A i \in 2 .. Len(bs) : ~(bs[i - 1] > bs[i])

(***************************************************************************)
(* prom_histogram_new's choice of buckets: NULL buckets are replaced by    *)
(* the default ones, unchecked; others pass the order check or the         *)
(* histogram is destroyed and NULL returned (status "null").               *)
(***************************************************************************)
HistogramNew(bk) ==
  IF bk.null THEN [status |-> "ok", buckets |-> DefaultBuckets]
  ELSE IF BoundsAccepted(bk.upper_bounds) THEN [status |-> "ok", buckets |-> bk]
  ELSE [status |-> "null", buckets |-> NoBuckets]
=============================================================================
