SPECIFICATION Spec
CONSTANTS
  Codes = {c1, c2}
  Merchants = {m1}
  Customers = {k1, k2}
  Requests = {r1, r2, r3, r4}
  None = None
  Funds = 1
  SerialSellers = TRUE
  MaxFaults = 1
SYMMETRY Symmetry
INVARIANTS EscrowHasCodes
CHECK_DEADLOCK FALSE
