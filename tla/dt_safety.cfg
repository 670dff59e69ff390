SPECIFICATION Spec
CONSTANTS
  Codes = {c1, c2}
  Ops = {o1, o2}
  Customers = {k1}
  Workers = {w1}
  Merchant = Merchant
  None = None
  MaxQuantity = 2
  MaxFaults = 1
  MaxListed = 0
  MaxCareless = 2
SYMMETRY Symmetry
INVARIANTS IInv LedgerBacked ConfirmedIsDelivered SentCodesHeld NoDuplicateRows
PROPERTIES ImplementsDelivery
CHECK_DEADLOCK FALSE
