CONSTANTS
  c1 = c1  c2 = c2  c3 = c3  c4 = c4
  o1 = o1
  NoOp = NoOp
  Ops = {c1, c2, c3, c4}
  Objs = {o1}
  Impatient = {}
SPECIFICATION Spec
SYMMETRY Symmetry
CHECK_DEADLOCK FALSE
INVARIANTS TypeOK HandlesAlive Exclusive CancelledQueueNeverStarts NoStrandedCaller OutcomesTrue
