\* Every option names a scale mode.
CONSTANTS
  t1 = t1
  t2 = t2
  hud = hud
  map = map
  pipboy = pipboy
  typo = typo
  NotSet = NotSet
  Threads <- Two
  Injections = 1
  StackDepth = 1
  Files <- Known
  Option <- AsDocumented
  Images <- Executables
SPECIFICATION UiSpec
INVARIANTS
  ModeAsConfigured
  InjectsMovie
  HookReachesOriginal
  OriginalOnce
PROPERTIES
  CallsReturn
  ImplementsVfTable
