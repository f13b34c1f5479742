SPECIFICATION ActivitySpec
CONSTANTS
  Overviews = {o1, o2}
  Entries = {e1, e2, e3}
  None = None
  Window = 2
  Fresh = 1
  Extend = 2
  Lag = 1
  MaxHead = 4
VIEW WithoutGarbage
CHECK_DEADLOCK FALSE
INVARIANTS CountedOnce DayCounted
