\* Two workers incrementing two label sets of one counter while it is rendered, with node, realloc, dump and sample allocations failing: the sample bound to each key counts every increment that looked it up and returned 0 and every render ends.
CONSTANTS
  Threads = {t1, t2}
  Labels = {"a", "e"}
  MetricName <- MCMetricName
  LabelKeys <- MCLabelKeys
  LabelValues <- MCLabelValues
  BuilderSize = 8
  InitialSize = 2
  MapMayFail = {"node"}
  MayFail = {"realloc", "dump", "sample"}
  MaxCalls = 2
  NoThread = NoThread
  NoSample = NoSample
SPECIFICATION FairSpec
\* The workers stop once they have made their calls.
CHECK_DEADLOCK FALSE
INVARIANT KeyCountsExact
PROPERTY RenderEnds
