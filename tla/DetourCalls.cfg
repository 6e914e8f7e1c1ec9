\* Two threads call the function while it is detoured.
CONSTANTS
  t1 = t1
  t2 = t2
  Threads <- Two
  Layouts <- Sound
  Space = 4096
  Reach = 512
  Page = 64
CHECK_DEADLOCK FALSE
SPECIFICATION Spec
INVARIANTS
  TypeOK
  CallsUnharmed
  CallsHooked
  JumpReaches
  AllOrNothing
  PagesRestored
PROPERTIES
  DetourEnds
