\* Two workers register collectors under a shared name and under "process",
\* and metrics of their own names, while the bridge renders and the process
\* collector reads one of two kernel limits files or fails to open one;
\* default_init may bind a NULL default collector or fail to add "process".
CONSTANTS
  Threads = {t1, t2}
  CollectorNames = {"rtr", "process"}
  MetricNamesOf <- OwnMetricNames
  MaxCalls = 2
  LimitsFiles <- KernelFiles
  MayFail = {"collector", "process", "set"}
  NoObj = NoObj
SPECIFICATION FairSpec
INVARIANTS RegistrationsKept RenderCoversRegistered ProcessLimitsExposed
PROPERTY LockReleased
