SPECIFICATION FairSpec
CONSTANTS
  Chans = {1}
  InitialChans = {1}
  Endpoints = {10, 11}
  ChannelOf <- MCChannelOf
  TestEndpoint <- MCTestEndpoint
  Requests = {r1}
  Admins = {}
  AdminOps <- MCNothing
  MaxQueue = 2
  MaxRestarts = 0
  None = None
PROPERTIES ChannelsSelfHeal
