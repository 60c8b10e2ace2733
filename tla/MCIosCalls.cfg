SPECIFICATION Spec
CONSTANTS
  NCalls = 3
  Kinds = {"offer", "answer", "local", "remote", "candidate", "close"}
  Disciplined = TRUE
INVARIANTS TypeOK AnswersFindCallbacks AnswersAreOwn StateBeforeAnswer CallsInOrder
CHECK_DEADLOCK FALSE
PROPERTIES CallsAreAnswered CloseIsLearned
