SPECIFICATION Spec
CONSTANTS
  Endpoints = {e1}
  NoEndpoint = NoEndpoint
  Callers = {c1, c2}
  Policies <- MCPolicies
  Holds <- MCHolds
  Horizon = 2
  MaxFails = 4
  MaxTime = 4
INVARIANTS TypeOK SuspensionIsEarned
