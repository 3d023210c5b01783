CONSTANTS
  c1 = c1  c2 = c2  c3 = c3  c4 = c4
  NoOp = NoOp
  Ops = {c1, c2, c3, c4}
  Objs = {c1, c2, c3, c4}
  Impatient = {}
  Preempt = FALSE
SPECIFICATION MCSpec
SYMMETRY Symmetry
CHECK_DEADLOCK FALSE
INVARIANTS SessionTypeOK NothingLeftBehind SerialUnlessReplaced
