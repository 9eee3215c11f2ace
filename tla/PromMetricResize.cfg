\* A third label set resizes the samples map while the renderer holds a node of the old keys list.
CONSTANTS
  Threads = {t1, t2}
  Labels = {"a", "e", "d"}
  MetricName <- MCMetricName
  LabelKeys <- MCLabelKeys
  LabelValues <- MCLabelValues
  BuilderSize = 8
  InitialSize = 2
  MapMayFail = {}
  MayFail = {}
  MaxCalls = 2
  NoThread = NoThread
  NoSample = NoSample
SPECIFICATION Spec
\* The workers stop once they have made their calls.
CHECK_DEADLOCK FALSE
INVARIANT RendererReadsLive
