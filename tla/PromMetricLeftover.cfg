\* A dump that fails leaves the l_value in the metric's formatter, and the next increment of the same label set is made under a key that starts with it.
CONSTANTS
  Threads = {t1, t2}
  Labels = {"a", "e"}
  MetricName <- MCMetricName
  LabelKeys <- MCLabelKeys
  LabelValues <- MCLabelValues
  BuilderSize = 8
  InitialSize = 2
  MapMayFail = {}
  MayFail = {"dump"}
  MaxCalls = 2
  NoThread = NoThread
  NoSample = NoSample
SPECIFICATION Spec
\* The workers stop once they have made their calls.
CHECK_DEADLOCK FALSE
INVARIANT CountsExact
