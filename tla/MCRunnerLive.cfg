CONSTANTS
  o1 = o1
  NoOp = NoOp
  Ops = {1, 2, 3}
  Objs = {o1}
  Impatient = {1, 2, 3}
SPECIFICATION MCFairSpec
CHECK_DEADLOCK FALSE
INVARIANTS HandlesAlive NoStrandedCaller
PROPERTIES ImplementsSlot CancelReturns CancelResolvesCallers QueuedRunServed
