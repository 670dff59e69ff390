SPECIFICATION FairSpec
CONSTANTS
  Codes = {c1}
  Ops = {o1, o2}
  Customers = {k1}
  Workers = {w1}
  Merchant = Merchant
  None = None
  MaxQuantity = 1
  MaxFaults = 1
  MaxListed = 1
  MaxCareless = 1
PROPERTIES ConfirmedEventuallyDelivered
CHECK_DEADLOCK FALSE
