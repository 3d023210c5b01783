CONSTANTS
  a1 = a1 a2 = a2 a3 = a3
  r1 = r1  r2 = r2
  None = None
  Asks = {a1, a2, a3}
  Replies = {r1, r2}
  Requests <- MCRequests
  Impatient = {r1, r2}
  Preempt = TRUE
SPECIFICATION Spec
SYMMETRY Symmetry
CHECK_DEADLOCK FALSE
INVARIANTS PermissionTypeOK AnsweredOnce GrantJustified
