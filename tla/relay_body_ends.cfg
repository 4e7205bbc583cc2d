SPECIFICATION FairSpec
CONSTANTS
  Streams = {1}
  Kinds <- MCKinds
  Capacity = 1
  Limit = 1
  MaxItems = 1
  None = None
PROPERTIES BodyEndsForClient
