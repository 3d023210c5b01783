CONSTANTS
  t1 = t1
  t2 = t2
  Tools = {t1, t2}
  NoTool = NoTool
  MaxAttempts = 2
  MaxVersion = 2
  MaxShares = 2
  MaxFlushes = 2
SPECIFICATION MCSpec
CHECK_DEADLOCK FALSE
INVARIANTS ClosedLast RetriesClean CacheAgrees NothingForgotten FlushComes
PROPERTIES SettledStays ProcessEnds
