SPECIFICATION Spec
CONSTANTS
  Tracks = {camera}
  Offers = {"offer"}
  Answers = {"answer"}
  ConnStates = {"new", "connected"}
  Nil = Nil
  camera = camera
  mic = mic
  NOps = 2
  NSenders = 1
  MaxInFlight = 1
CHECK_DEADLOCK FALSE
INVARIANTS TypeOK MirrorCatchesUp DescriptionsAgree AnsweredOnce
PROPERTY ParametersInOrder
