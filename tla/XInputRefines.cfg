\* Two threads, loading always works: the wrapper is the abstract service.
CONSTANTS
  t1 = t1
  t2 = t2
  t3 = t3
  Threads <- Two
  NumFns = 3
  Provided <- FirstAndLast
  PathUsable = TRUE
  LoadOutcomes <- Working
SPECIFICATION Spec
PROPERTY ImplementsService
