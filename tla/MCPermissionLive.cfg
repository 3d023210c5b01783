CONSTANTS
  a1 = a1 a2 = a2
  r1 = r1  r2 = r2
  None = None
  Asks = {a1, a2}
  Replies = {r1, r2}
  Requests <- MCRequests
  Impatient = {}
  Preempt = FALSE
SPECIFICATION FairSpec
CHECK_DEADLOCK FALSE
PROPERTIES RejectCascades RepliedAskReturns
