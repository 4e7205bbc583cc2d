SPECIFICATION GatewaySpec
CONSTANTS
  h1 = h1
  h2 = h2
  k1 = k1
  k2 = k2
  i1 = i1
  none = none
  Requests = {h1, h2}
  Handlers = {h1, h2}
  ApiKeys = {k1}
  Ips = {i1}
  Global = global
  None = none
  NoValue = none
  NoChannel = none
  Limits <- MCLimits
  Scenarios <- MCScenarios
  MaxWindows = 1
  MaxMinute = 1
  MaxArrivals = 4
  MaxSems = 2
CHECK_DEADLOCK FALSE
INVARIANTS GatewayTypeOK
PROPERTIES LimitsAreKept RoutesAreSound BindingsHold
