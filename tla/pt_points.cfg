SPECIFICATION MarketSpec
CONSTANTS
  Customers = {k1, k2}
  Requests = {r1, r2, r3}
  Activations = {a1, a2}
  Old = Old
  None = None
  Supply = 2
  Lives = {25, 42841}
  Coupons = 3
  Issued = 3
  MaxAmount = 2
  MaxFaults = 2
  MaxAdmin = 2
SYMMETRY Symmetry
INVARIANTS RecordsFollowTransfers BalancesFollowTransfers  ContractsFit ShelfIsOnChain
CHECK_DEADLOCK FALSE
