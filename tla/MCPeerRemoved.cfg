SPECIFICATION Spec
CONSTANTS
  Tracks = {camera, mic}
  Offers = {"offer"}
  Answers = {"answer"}
  ConnStates = {"new", "connected"}
  Nil = Nil
  camera = camera
  mic = mic
  NOps = 0
  NSenders = 2
  MaxInFlight = 2
CHECK_DEADLOCK FALSE
INVARIANT RemovedStopsSending
SYMMETRY TrackSymmetry
