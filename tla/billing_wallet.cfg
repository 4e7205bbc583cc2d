SPECIFICATION FairSpec
CONSTANTS
  Users = {"u"}
  Slots = {r1, r2}
  Admins = {a1}
  None = None
  UserOf <- MCUserOf
  Costs = {0, 1}
  Deltas <- MCDeltas
  MaxIds = 3
  MaxCrashes = 1
INVARIANTS TypeOK LedgerExplainsWallet ChargeHasLogRow
PROPERTIES BalanceDecides
