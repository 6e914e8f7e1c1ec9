\* One option is misspelt.
CONSTANTS
  t1 = t1
  t2 = t2
  hud = hud
  map = map
  pipboy = pipboy
  typo = typo
  NotSet = NotSet
  Threads <- Two
  Injections = 1
  StackDepth = 1
  Files <- All
  Option <- Misspelt
  Images <- OneGame
SPECIFICATION UiSpec
INVARIANT UnknownNameKeepsMode
