SPECIFICATION Spec
CONSTANTS
  v1 = v1
  k1 = k1
  k2 = k2
  m1 = m1
  m2 = m2
  Codes = {1, 2, 3}
  Vouchers = {v1}
  Customers = {k1, k2}
  Merchants = {m1, m2}
  Requests = {r1, r2}
  MaxRows = 3
  None = None
  Stranger = Stranger
  Unminted = Unminted
  SafeLimit = 2
  MaxOthers = 2
  MaxFaults = 1
  VoucherOf <- MCVoucherOf
  HolderOf <- MCHolderOf
  Files <- MCFiles
SYMMETRY Symmetry
INVARIANTS  AnswersAreTrue ForecastsHold WalletViewIsTrue 
PROPERTIES DeliverySpec
CHECK_DEADLOCK FALSE
