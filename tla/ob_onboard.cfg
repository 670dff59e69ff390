SPECIFICATION Spec
CONSTANTS
  Users = {u1, u2}
  Phones = {p1, p2}
  Emails = {e1, e2}
  Requests = {r1, r2, r3}
  Old = Old
  None = None
  MaxIndex = 8
  MaxFaults = 1
  MaxTime = 1
  Workloads <- MCWorkloads
SYMMETRY Symmetry
INVARIANTS NoAddressReuse SellerWalletIsOwn VerifiedOnce OtpIsPersonal CustomersAreWhole
CHECK_DEADLOCK FALSE
