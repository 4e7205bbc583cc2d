SPECIFICATION FairSpec
CONSTANTS
  Requests = {"r1", "r2"}
  Candidates = {"a", "b", "c"}
  Channels = {"x", "y"}
  Keys = {"k1", "k2", "k3"}
  Identities = {"u"}
  ChannelOf <- TargetOf
  Transcoded = {"b"}
  OwnKey = {"c"}
  MaxPool = 3
  CursorModulus = 4
  Deployments <- Both
  None = None
\* Once the only channel is deleted no request can be planned: the system rests.
CHECK_DEADLOCK FALSE
INVARIANTS TypeOK 
PROPERTIES CallsAreWorthMaking PoolIsJudgedByItsKeys EveryRequestEnds
