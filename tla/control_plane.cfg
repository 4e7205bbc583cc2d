SPECIFICATION Spec
CONSTANTS
  Sessions = {s1, s2}
  Permits = 1
  Room = 1
  MaxFrames = 2
  MaxAnswers = 1
  Setups <- MCSetups
  Drain = 1
  MaxRequests = 2
  MaxTasks = 1
  Editors = {e1, e2}
  SettingValues = {1, 2}
  ChannelNames = {"c", "d"}
  Secrets = {"s1", "s2"}
  MasterKeys = {"k1", "k2"}
  CallerKeys = {"a1", "a2", "a3"}
  Cases <- MCCases
CHECK_DEADLOCK FALSE
INVARIANTS TypeOK CredentialsReachTheirOwner CredentialsStayReadable
PROPERTIES  ServesUntilItEnds 
