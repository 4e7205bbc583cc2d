SPECIFICATION FairSpec
CONSTANTS
  Streams = {1, 2}
  Kinds <- MCKinds
  Capacity = 1
  Limit = 1
  MaxItems = 2
  None = None
INVARIANTS TypeOK OutcomeIsTrue 
PROPERTIES PermitComesBack
