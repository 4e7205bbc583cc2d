SPECIFICATION Spec
CONSTANTS
  Endpoints = {e1, e2}
  NoEndpoint = NoEndpoint
  Callers = {c1}
  Policies <- MCPolicies
  Holds <- MCHolds
  Horizon = 2
  MaxFails = 4
  MaxTime = 5
 
PROPERTIES ImplementsBreaker
