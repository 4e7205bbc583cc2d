SPECIFICATION Spec
CONSTANTS
  Chans = {1, 2}
  InitialChans = {1}
  Endpoints = {10}
  ChannelOf <- MCChannelOf
  TestEndpoint <- MCTestEndpoint
  Requests = {r1}
  Admins = {a1}
  AdminOps <- MCEverything
  MaxQueue = 1
  MaxRestarts = 1
  None = None
INVARIANTS TypeOK 
PROPERTIES MarksDecide
