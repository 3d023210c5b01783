CONSTANTS
  q1 = q1
  None = None
  Calls = {1, 2, 3, 4}
  Questions = {q1}
  Replies = {1, 2}
SPECIFICATION MCSpec
CHECK_DEADLOCK FALSE
INVARIANTS CacheTruthful FreshState QuestionReachable QuestionAnsweredOnce ReloadRejects
PROPERTIES BootAlone
