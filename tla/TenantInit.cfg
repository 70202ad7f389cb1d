SPECIFICATION LiveSpec
CONSTANTS
  Threads = {t1, t2}
  MaxId = 2
  NoThread = NoThread
INVARIANTS TypeOK UniqueIds SettledExclusive
PROPERTIES SettledStays SettledKeeps SettledReturns
CHECK_DEADLOCK FALSE
