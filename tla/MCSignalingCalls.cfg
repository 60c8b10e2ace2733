SPECIFICATION Spec
CONSTANTS
  ann = ann
  bob = bob
  carol = carol
  Users = {ann, bob, carol}
  CallPairs <- TwoCallees
  Nobody = Nobody
  MaxCalls = 1
  MaxConns = 4
  MaxRenegotiate = 0
  MaxCandidates = 1
CHECK_DEADLOCK FALSE
PROPERTY FollowsExchange
INVARIANTS TypeOK Paired CandidatesFollowDescriptions
