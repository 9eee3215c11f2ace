--------------------------- MODULE MCPromHistogram ---------------------------
EXTENDS PromHistogram, TLC

\* Observer threads are interchangeable.
ThreadSymmetry == Permutations(Threads)

\* The bounds a histogram created with the given buckets uses.
HistogramBounds(bk) == HistogramNew(bk).buckets.upper_bounds

\* prom_histogram_buckets_linear(0.000001, 0.000001, 2): bounds 0.000001
\* and 0.000002, whose six-decimal texts differ.
SeparateBounds == HistogramBounds(BucketsLinear(10, 10, 2))

\* prom_histogram_buckets_new(2, 0.000001, 0.0000014): ascending bounds with
\* the same six-decimal text.
CloseBounds == HistogramBounds(BucketsNew(2, <<10, 14>>))

\* prom_histogram_buckets_linear(0.000001, 0, 2): two equal bounds, which
\* prom_histogram_new's check lets through.
ZeroWidthBounds == HistogramBounds(BucketsLinear(10, 0, 2))
\* Values below, on and above the bounds, and one negative value.
ValuesWithNegative == {5, 10, 30, -10}
=============================================================================
