\* Two workers register metrics of the same name through register_metric.
CONSTANTS
  Threads = {t1, t2}
  CollectorNames = {"rtr"}
  MetricNamesOf <- SharedMetricNames
  MaxCalls = 1
  LimitsFiles <- KernelFiles
  MayFail = {}
  NoObj = NoObj
SPECIFICATION Spec
INVARIANT RegistrationsKept
