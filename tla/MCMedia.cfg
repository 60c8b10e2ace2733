SPECIFICATION Spec
CONSTANTS
  r1 = r1
  r2 = r2
  t1 = t1
  t2 = t2
  s1 = s1
  s2 = s2
  Requests = {r1, r2}
  Wants <- WantsOf
  RemoteTracks = {t1, t2}
  RemoteStreams = {s1, s2}
  Descriptions <- AllArrivals
  None = None
  NEvents = 2
  NInputs = 3
INVARIANTS TypeOK OwnedIsKept EndsAreNoticed ListedAreCounted EventsAreGivenBack
PROPERTY RequestsAreAnswered
CHECK_DEADLOCK FALSE
