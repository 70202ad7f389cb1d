SPECIFICATION Spec
CONSTANTS
  Threads = {t1, t2}
  MaxId = 1
  NoThread = NoThread
INVARIANT OuterMapsSafe
CHECK_DEADLOCK FALSE
