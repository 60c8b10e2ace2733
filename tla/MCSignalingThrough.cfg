SPECIFICATION FairSpec
CONSTANTS
  ann = ann
  bob = bob
  carol = carol
  Users = {ann, bob}
  CallPairs <- OneCall
  Nobody = Nobody
  MaxCalls = 1
  MaxConns = 4
  MaxRenegotiate = 1
  MaxCandidates = 0
CHECK_DEADLOCK FALSE
PROPERTY CallsGetThrough
