\* Two well-separated bounds; values below the first bound, equal to it,
\* and above every bound.
CONSTANTS
  Bounds <- SeparateBounds
  Values = {5, 10, 30}
  Threads = {t1, t2}
  MaxObs = 2
  NoThread = NoThread
SPECIFICATION Spec
INVARIANTS TypeOK BucketsCumulative RenderedMonotone
SYMMETRY ThreadSymmetry
