\* Three threads race through their first calls; loading may fail for some.
CONSTANTS
  t1 = t1
  t2 = t2
  t3 = t3
  Threads <- Three
  NumFns = 2
  Provided = {1}
  PathUsable = TRUE
  LoadOutcomes <- Mixed
SPECIFICATION Spec
SYMMETRY Symmetry
INVARIANTS
  TypeOK
  ReplyJustified
  AttemptsOnce
  HandleHeld
  CrashNeedsMixedLoads
