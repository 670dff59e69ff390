SPECIFICATION Spec
CONSTANTS
  Codes = {c1}
  Requests = {r1}
  Customers = {k1}
  Market = Market
  None = None
  MaxFaults = 0
  MaxRevocations = 0
SYMMETRY Symmetry
INVARIANTS RolledBackIsReversed
CHECK_DEADLOCK FALSE
