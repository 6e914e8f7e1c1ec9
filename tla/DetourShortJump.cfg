\* The function only jumps, backwards, with one byte of displacement.
CONSTANTS
  t1 = t1
  t2 = t2
  Threads <- Two
  Layouts <- Backward
  Space = 4096
  Reach = 512
  Page = 64
CHECK_DEADLOCK FALSE
SPECIFICATION Spec
INVARIANT FollowsJumps
