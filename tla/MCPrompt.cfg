CONSTANTS
  o1 = o1
  NoOp = NoOp
  Ops = {1, 2, 3}
  Objs = {o1}
  MaxMessages = 6
SPECIFICATION MCSpec
CHECK_DEADLOCK FALSE
INVARIANTS AnsweredOnce
PROPERTIES ReadIncluded CleanupSpares
