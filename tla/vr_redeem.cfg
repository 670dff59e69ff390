SPECIFICATION FairSpec
CONSTANTS
  Codes = {c1, c2}
  Requests = {r1, r2}
  Customers = {k1, k2}
  Market = Market
  None = None
  MaxFaults = 1
  MaxRevocations = 1
INVARIANTS StoresAgree TwiceOnlyTogether
PROPERTIES RequestsEnd ImplementsSaga
CHECK_DEADLOCK FALSE
