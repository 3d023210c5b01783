CONSTANTS
  c1 = c1  c2 = c2  c3 = c3
  NoOp = NoOp
  Ops = {c1, c2, c3}
  Objs = {c1, c2, c3}
  Impatient = {}
  Preempt = TRUE
SPECIFICATION SessionSpec
SYMMETRY Symmetry
CHECK_DEADLOCK FALSE
INVARIANTS NothingLeftBehind
