\* Three threads adding to a counter and adding, subtracting and setting a gauge: every call is linearizable and returns.
CONSTANTS
  Threads = {t1, t2, t3}
  Counter = Counter
  Gauge = Gauge
  Samples = {Counter, Gauge}
  SampleType <- MCSampleType
  Calls <- MCCalls
  MaxCalls = 2
  NoOp = NoOp
SPECIFICATION FairSpec
\* The threads stop once they have made their calls.
CHECK_DEADLOCK FALSE
PROPERTY Linearizable
PROPERTY CallsReturn
