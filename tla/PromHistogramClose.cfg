\* Two ascending bounds that render to the same six-decimal text.
CONSTANTS
  Bounds <- CloseBounds
  Values = {10}
  Threads = {t1}
  MaxObs = 1
  NoThread = NoThread
SPECIFICATION Spec
INVARIANT BucketsCumulative
