\* prom_collector_new("default") fails inside default_init: the registry
\* is stored with a NULL default collector and default_init returns 0.
CONSTANTS
  Threads = {t1, t2}
  CollectorNames = {"rtr", "process"}
  MetricNamesOf <- OwnMetricNames
  MaxCalls = 2
  LimitsFiles <- KernelFiles
  MayFail = {"collector"}
  NoObj = NoObj
SPECIFICATION Spec
INVARIANT DefaultSeeded
