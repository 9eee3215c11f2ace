\* A gauge add of a negative delta, which spec.md 4.2 accepts and prom_metric_sample_add rejects.
CONSTANTS
  Threads = {t1, t2}
  Counter = Counter
  Gauge = Gauge
  Samples = {Counter, Gauge}
  SampleType <- MCSampleType
  Calls <- GaugeNegativeCalls
  MaxCalls = 1
  NoOp = NoOp
SPECIFICATION Spec
CHECK_DEADLOCK FALSE
PROPERTY Linearizable
