\* Label values are not escaped: two label sets whose values hold quotes and commas render the same l_value and share one sample.
CONSTANTS
  Threads = {t1, t2}
  Labels = {"a", "e"}
  MetricName <- MCMetricName
  LabelKeys <- MCTwoLabelKeys
  LabelValues <- MCQuotedValues
  BuilderSize = 8
  InitialSize = 2
  MapMayFail = {}
  MayFail = {}
  MaxCalls = 1
  NoThread = NoThread
  NoSample = NoSample
SPECIFICATION Spec
\* The workers stop once they have made their calls.
CHECK_DEADLOCK FALSE
INVARIANT CountsExact
