SPECIFICATION Spec
CONSTANTS
  ann = ann
  bob = bob
  carol = carol
  Users = {ann, bob}
  CallPairs <- OneCall
  Nobody = Nobody
  MaxCalls = 2
  MaxConns = 4
  MaxRenegotiate = 0
  MaxCandidates = 0
CHECK_DEADLOCK FALSE
INVARIANT AnswersReachCaller
