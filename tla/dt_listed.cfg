SPECIFICATION FairSpec
CONSTANTS
  Codes = {c1, c2}
  Ops = {o1}
  Customers = {k1}
  Workers = {w1}
  Merchant = Merchant
  None = None
  MaxQuantity = 1
  MaxFaults = 0
  MaxListed = 1
  MaxCareless = 0
PROPERTIES ListedUntouched
CHECK_DEADLOCK FALSE
