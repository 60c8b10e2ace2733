SPECIFICATION FairSpec
CONSTANTS
  Tracks = {camera}
  Offers = {"offer"}
  Answers = {"answer"}
  ConnStates = {"new", "connected"}
  Nil = Nil
  camera = camera
  mic = mic
  NOps = 1
  NSenders = 2
  MaxInFlight = 1
CHECK_DEADLOCK FALSE
PROPERTY CallsAreAnswered
