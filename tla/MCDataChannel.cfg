SPECIFICATION Spec
CONSTANTS
  NMessages = 3
  NSends = 2
INVARIANTS TypeOK DispatchedOnce CreatedInOrder SentWithoutGaps
PROPERTIES KeptAreReplayed OpenIsLearned CloseSticks
CHECK_DEADLOCK FALSE
